---- MODULE Spec2Model ----
(***************************************************************************)
(* Model of hyni: the chat facade (chat_api over general_context and       *)
(* http_client), the schema_manager registry, the general_context's        *)
(* messages and parameters, and the legacy chat_api with its three         *)
(* provider contexts.  Strings are sequences of abstract characters:       *)
(*   "d" ":"   the six bytes `data: ` (Prefix)                             *)
(*   "[" "]"   the bytes `[DONE]` (DoneMark)                               *)
(*   "{" "}"   the delimiters of a JSON object                             *)
(*   "a" "b"   characters of the text found at the schema's text_path      *)
(*   "!"       the content of a JSON object that lacks the text_path       *)
(*   "n"       a newline,   "x"  a byte that is not JSON                   *)
(***************************************************************************)
EXTENDS Integers, Sequences, FiniteSets, TLC

\* ------------------------------------------------------------------ bounds
MaxMsgs == 2
MaxFrames == 2

\* --------------------------------------------------------------- constants
StatusOkMin == 200
StatusOkEnd == 300

UserTexts == {<<"p">>, <<"q">>}
AssistantTexts == {<<"r">>}
Letters == {"a", "b"}

Prefix == <<"d", ":">>
DoneMark == <<"[", "]">>

\* ----------------------------------------------------------------- helpers
Last(s) == s[Len(s)]

RECURSIVE Concat(_)
Concat(ss) == IF ss = <<>> THEN <<>> ELSE Head(ss) \o Concat(Tail(ss))

Range(s) == {s[i] : i \in 1..Len(s)}

\* std::string::find: first index at which `pat` occurs in `s`, 0 for npos
Find(s, pat) ==
    LET hits == {i \in 1..(Len(s) - Len(pat) + 1) :
                    SubSeq(s, i, i + Len(pat) - 1) = pat}
    IN IF hits = {} THEN 0 ELSE CHOOSE i \in hits : \A j \in hits : i <= j

\* line.rfind(pat, 0) == 0
StartsWith(s, pat) ==
    Len(s) >= Len(pat) /\ SubSeq(s, 1, Len(pat)) = pat

\* s.substr(k) with k counted in characters already consumed
Substr(s, k) == SubSeq(s, k + 1, Len(s))

\* ------------------------------------------------------------------- JSON
RECURSIVE SkipWs(_)
SkipWs(s) == IF s # <<>> /\ Head(s) = "n" THEN SkipWs(Tail(s)) ELSE s

RECURSIVE DropTrailingWs(_)
DropTrailingWs(s) ==
    IF s # <<>> /\ Last(s) = "n" THEN DropTrailingWs(SubSeq(s, 1, Len(s) - 1)) ELSE s

\* nlohmann::json::parse: whitespace around the value is accepted, anything
\* else around it is a parse error.  discarded = TRUE stands for the parse
\* error (an exception in the throwing form, is_discarded() otherwise).
JsonParse(s) ==
    LET t == DropTrailingWs(SkipWs(s))
        inner == SubSeq(t, 2, Len(t) - 1)
        ok == /\ Len(t) >= 2
              /\ t[1] = "{"
              /\ t[Len(t)] = "}"
              /\ \/ Range(inner) \subseteq Letters
                 \/ inner = <<"!">>
    IN IF ok
       THEN [discarded |-> FALSE, has_text |-> inner # <<"!">>,
             text |-> IF inner = <<"!">> THEN <<>> ELSE inner]
       ELSE [discarded |-> TRUE, has_text |-> FALSE, text |-> <<>>]

\* general_context::extract_text_response: the text at text_path, or an
\* exception when a link of the path is missing
extract_text_response(json) ==
    IF json.has_text THEN [throws |-> FALSE, text |-> json.text]
    ELSE [throws |-> TRUE, text |-> <<>>]

\* general_context::extract_error: the message at error_path, empty when the
\* response has none
extract_error(json) ==
    IF ~json.discarded /\ ~json.has_text THEN <<"!">> ELSE <<>>

\* ---------------------------------------------------------------- context
UserMsg(t) == [role |-> "user", content |-> t]
AssistantMsg(t) == [role |-> "assistant", content |-> t]

IsUser(m) == m.role = "user"
NotUser(m) == m.role # "user"

LastUserIndex(msgs) ==
    LET us == {i \in 1..Len(msgs) : IsUser(msgs[i])}
    IN IF us = {} THEN 0 ELSE CHOOSE i \in us : \A j \in us : j <= i

RemoveAt(msgs, i) ==
    IF i = 0 THEN msgs ELSE SubSeq(msgs, 1, i - 1) \o SubSeq(msgs, i + 1, Len(msgs))

\* a check that any message at all is enough
has_user_message_any(msgs) == msgs # <<>>

\* general_context::clear_user_messages is called by the facade but its body
\* is not part of the sources: the readings its name and the specification
\* allow are all outcomes (every user message removed; the list cleared; the
\* last user turn removed).
clear_user_messages(msgs) ==
    { SelectSeq(msgs, NotUser), <<>>, RemoveAt(msgs, LastUserIndex(msgs)) }

has_user_message(msgs) == \E i \in 1..Len(msgs) : msgs[i].role = "user"

\* ------------------------------------------------------------ http_client
CurlErrors == {"CURLE_COULDNT_CONNECT", "CURLE_OPERATION_TIMEDOUT"}
Statuses == {199, 200, 299, 300, 404}
Bodies == { <<>>, <<"x">>, <<"{", "!", "}">>, <<"{", "a", "}">>, <<"{", "a", "b", "}", "n">> }

\* what curl_easy_perform can end with: a transport error (no status), or
\* CURLE_OK with the server's status and body
Outcomes ==
    [res : CurlErrors, status : {0}, body : {<<>>}]
        \cup [res : {"CURLE_OK"}, status : Statuses, body : Bodies]

AbortOutcome == [res |-> "CURLE_ABORTED_BY_CALLBACK", status |-> 0, body |-> <<>>]

\* curl_easy_strerror
CurlStrError(res) == <<res>>

\* a wrapper that never reports the predicate's answer to libcurl
progress_callback_wrapper_ignored(pred, flag) == 0

\* http_client::progress_callback_wrapper: pred is "a non-null callback was
\* passed", flag is what the callback returns when it is called
progress_callback_wrapper(pred, flag) ==
    IF pred THEN (IF flag THEN 1 ELSE 0) ELSE 0

\* a post whose success test takes the status 300 for a success
post_inclusive(o) ==
    IF o.res # "CURLE_OK"
    THEN [res |-> o.res, success |-> FALSE, status_code |-> 0,
          body |-> o.body, error_message |-> <<o.res>>]
    ELSE [res |-> o.res,
          success |-> (o.status >= StatusOkMin /\ o.status <= StatusOkEnd),
          status_code |-> o.status, body |-> o.body, error_message |-> <<>>]

\* http_client::post after curl_easy_perform has returned
post(o) ==
    IF o.res # "CURLE_OK"
    THEN [res |-> o.res, success |-> FALSE, status_code |-> 0,
          body |-> o.body, error_message |-> CurlStrError(o.res)]
    ELSE [res |-> o.res,
          success |-> (o.status >= StatusOkMin /\ o.status < StatusOkEnd),
          status_code |-> o.status, body |-> o.body, error_message |-> <<>>]

\* --------------------------------------------------------------- chat_api
Raise(what) == [kind |-> "error", text |-> <<>>, what |-> what]
Return(text) == [kind |-> "text", text |-> text, what |-> <<>>]

\* chat_api::send_message after post has returned
send_message_tail(response) ==
    IF ~response.success
    THEN Raise(<<"API request failed: ">> \o response.error_message)
    ELSE LET json_response == JsonParse(response.body)
         IN IF json_response.discarded
            THEN Raise(<<"Failed to parse API response: ", "parse_error">>)
            ELSE LET e == extract_text_response(json_response)
                 IN IF e.throws
                    THEN Raise(<<"Failed to parse API response: ", "extract">>)
                    ELSE Return(e.text)

\* ------------------------------------------------- server-sent event stream
FrameKinds == Letters \cup {"DONE"}

\* one SSE line as the server writes it: `data: {...}\n` or `data: [DONE]\n`
FrameBytes(f) ==
    IF f = "DONE" THEN Prefix \o DoneMark \o <<"n">>
    ELSE Prefix \o <<"{", f, "}", "n">>

RECURSIVE Serialize(_)
Serialize(frames) ==
    IF frames = <<>> THEN <<>> ELSE FrameBytes(Head(frames)) \o Serialize(Tail(frames))

FrameSeqs == UNION {[1..n -> FrameKinds] : n \in 0..MaxFrames}

\* std::getline over the chunk: the segments between newlines, a last
\* unterminated segment included
RECURSIVE GetLines(_)
GetLines(s) ==
    IF s = <<>> THEN <<>>
    ELSE LET i == Find(s, <<"n">>)
         IN IF i = 0 THEN <<s>>
            ELSE <<SubSeq(s, 1, i - 1)>> \o GetLines(Substr(s, i))

\* the while loop of the on_chunk lambda of send_message_stream(on_chunk, ...):
\* the texts it passes to the caller's on_chunk, in order
RECURSIVE ProcessLines(_)
ProcessLines(lines) ==
    IF lines = <<>> THEN <<>>
    ELSE LET line == Head(lines)
             json_str == Substr(line, Len(Prefix))
             json_chunk == JsonParse(json_str)
             content == extract_text_response(json_chunk)
         IN IF ~StartsWith(line, Prefix) THEN ProcessLines(Tail(lines))
            ELSE IF json_str = DoneMark THEN <<>>
            ELSE IF json_str = <<>> THEN ProcessLines(Tail(lines))
            ELSE IF json_chunk.discarded THEN ProcessLines(Tail(lines))
            ELSE IF content.throws THEN <<>>
            ELSE IF content.text = <<>> THEN ProcessLines(Tail(lines))
            ELSE <<content.text>> \o ProcessLines(Tail(lines))

\* on_chunk lambda of send_message_stream(on_chunk, ...)
OnChunkCtx(chunk) == ProcessLines(GetLines(chunk))

\* on_chunk lambda of send_message_stream(message, on_chunk, ...)
OnChunkMsg(chunk) ==
    IF chunk = <<>> \/ chunk = Prefix \o DoneMark THEN <<>>
    ELSE LET pos == Find(chunk, Prefix)
             json_str == Substr(chunk, pos - 1 + Len(Prefix))
             json_chunk == JsonParse(json_str)
             content == extract_text_response(json_chunk)
         IN IF pos = 0 THEN <<>>
            ELSE IF json_str = <<>> THEN <<>>
            ELSE IF json_chunk.discarded THEN <<>>
            ELSE IF content.throws THEN <<>>
            ELSE <<content.text>>

\* the task of http_client::post_stream after curl_easy_perform has returned:
\* the body went to the stream writer, response.body stays empty
post_stream_task(o) == post([o EXCEPT !.body = <<>>])

\* what the streaming transfer can end with: a transport error at any time,
\* or CURLE_OK once every byte has been delivered
StreamErrors == {"CURLE_OPERATION_TIMEDOUT"}
StreamStatuses == {200, 404}

StreamOutcomes(wire) ==
    [res : StreamErrors, status : {0}, body : {<<>>}]
        \cup (IF wire = <<>>
              THEN [res : {"CURLE_OK"}, status : StreamStatuses, body : {<<>>}]
              ELSE {})

\* --------------------------------------------------------- schema_manager
\* A path is a sequence of components: a directory name, "/", a file stem, an
\* extension.  "s" stands for `./schemas` and "t" for another directory.
ProviderNames == {"p1", "p2"}
DirNames == {"s", "t"}

\* the regular files there can be on disk (the last one, `p1.json`, in the
\* working directory), and the directories given to set_schema_directory
FileUniverse ==
    {<<d, "/", n, ".json">> : d \in DirNames, n \in ProviderNames}
        \cup {<<"s", "/", "p2", ".txt">>}
        \cup {<<"p1", ".json">>}

DirectoryInputs == {<<>>, <<"s">>, <<"s", "/">>, <<"t">>, <<"t", "/">>}

\* the paths given to register_schema_path
RegisteredPaths == {<<"t", "/", "p1", ".json">>, <<"t", "/", "p2", ".json">>}

\* schema_manager::m_schema_directory = "./schemas/"
DefaultSchemaDirectory == <<"s", "/">>

\* std::filesystem::exists: a regular file, or a directory that holds one
Exists(fs, path) ==
    \/ path \in fs
    \/ /\ path # <<>>
       /\ Last(path) = "/"
       /\ \E f \in fs : StartsWith(f, path)

\* the map after m_provider_paths[provider_name] = schema_path
register_schema_path(paths, provider_name, schema_path) ==
    [n \in (DOMAIN paths) \cup {provider_name} |->
        IF n = provider_name THEN schema_path ELSE paths[n]]

\* the directory string after schema_manager::set_schema_directory
set_schema_directory(directory) ==
    IF directory # <<>> /\ Last(directory) # "/"
    THEN directory \o <<"/">>
    ELSE directory

\* a resolution that never consults the registered paths
resolve_schema_path_unregistered(paths, dir, provider_name) ==
    dir \o <<provider_name, ".json">>

\* schema_manager::resolve_schema_path
resolve_schema_path(paths, dir, provider_name) ==
    IF provider_name \in DOMAIN paths
    THEN paths[provider_name]
    ELSE dir \o <<provider_name, ".json">>

\* schema_manager::is_provider_available
is_provider_available(paths, dir, fs, provider_name) ==
    Exists(fs, resolve_schema_path(paths, dir, provider_name))

\* the orders in which an unordered container or a directory can be iterated
Orderings(S) ==
    {o \in [1..Cardinality(S) -> S] : \A i, j \in 1..Cardinality(S) : o[i] = o[j] => i = j}

\* the entries std::filesystem::directory_iterator(dir) yields
DirectoryEntries(fs, dir) == {f \in fs : Len(f) = Len(dir) + 2 /\ StartsWith(f, dir)}

\* first loop of get_available_providers, over the registered names in order
RECURSIVE FromRegistered(_, _, _)
FromRegistered(order, paths, fs) ==
    IF order = <<>> THEN <<>>
    ELSE (IF Exists(fs, paths[Head(order)]) THEN <<Head(order)>> ELSE <<>>)
             \o FromRegistered(Tail(order), paths, fs)

\* a second loop that does not look the stem up in the registered names
RECURSIVE FromDirectory_unfiltered(_, _, _)
FromDirectory_unfiltered(providers, entries, paths) ==
    IF entries = <<>> THEN providers
    ELSE LET entry == Head(entries)
             provider_name == entry[Len(entry) - 1]
         IN IF /\ entry[Len(entry)] = ".json"
               /\ provider_name \notin Range(providers)
            THEN FromDirectory_unfiltered(Append(providers, provider_name), Tail(entries), paths)
            ELSE FromDirectory_unfiltered(providers, Tail(entries), paths)

\* second loop of get_available_providers, over the directory's entries
RECURSIVE FromDirectory(_, _, _)
FromDirectory(providers, entries, paths) ==
    IF entries = <<>> THEN providers
    ELSE LET entry == Head(entries)
             provider_name == entry[Len(entry) - 1]
         IN IF /\ entry[Len(entry)] = ".json"
               /\ provider_name \notin DOMAIN paths
               /\ provider_name \notin Range(providers)
            THEN FromDirectory(Append(providers, provider_name), Tail(entries), paths)
            ELSE FromDirectory(providers, Tail(entries), paths)

\* schema_manager::get_available_providers: the vectors it can return, one
\* for each order of iteration
get_available_providers(paths, dir, fs) ==
    {FromDirectory(FromRegistered(o1, paths, fs), o2, paths) :
        o1 \in Orderings(DOMAIN paths),
        o2 \in (IF Exists(fs, dir) THEN Orderings(DirectoryEntries(fs, dir)) ELSE {<<>>})}

\* a create_context that hands the resolved path to the constructor unchecked
create_context_unchecked(paths, dir, fs, provider_name) ==
    {[kind |-> "context", what |-> resolve_schema_path(paths, dir, provider_name)],
     [kind |-> "schema_exception", what |-> <<"general_context">>]}

\* schema_manager::create_context (both overloads): schema_exception when the
\* resolved file does not exist; otherwise whatever the general_context
\* constructor does with the file (a context, or its own schema_exception)
create_context(paths, dir, fs, provider_name) ==
    LET schema_path == resolve_schema_path(paths, dir, provider_name)
    IN IF ~Exists(fs, schema_path)
       THEN {[kind |-> "schema_exception",
              what |-> <<"Schema file not found for provider: ", provider_name,
                         " at ">> \o schema_path]}
       ELSE {[kind |-> "context", what |-> schema_path],
             [kind |-> "schema_exception", what |-> <<"general_context">>]}

NoLookup == [op |-> "none", name |-> "", value |-> "none", crashed |-> FALSE]

\* the threads that call into the schema_manager singleton
MaxThreads == 2
Threads == 1..MaxThreads

NoThreadCall == [op |-> "idle", name |-> "", path |-> <<>>, raced |-> FALSE]

\* -------------------------------------------------------- general_context
\* context_config: enable_validation and the two optional defaults ("none"
\* for an empty optional); parameter values are kept as written
Configs ==
    [enable_validation : BOOLEAN,
     default_max_tokens : {"none", "100"},
     default_temperature : {"none", "0.3"}]

\* context_config as default-constructed
DefaultConfig ==
    [enable_validation |-> TRUE, default_max_tokens |-> "none",
     default_temperature |-> "none"]

ParameterKeys == {"temperature", "max_tokens"}
\* the (key, value) pairs given to set_parameter
ParameterInputs ==
    {<<"temperature", "0.8">>, <<"temperature", "3.0">>, <<"max_tokens", "100">>,
     <<"max_tokens", "-1">>, <<"top_k", "null">>}

\* the models the schema lists; the first is its default
Models == {"m1", "m2"}
DefaultModel == "m1"
ModelInputs == Models \cup {"m9"}

\* the defaults of the schema's request template, overlaid with the config's
DefaultParameters(config) ==
    LET keys == {"max_tokens"}
                   \cup (IF config.default_temperature # "none" THEN {"temperature"} ELSE {})
    IN [k \in keys |->
           IF k = "temperature" THEN config.default_temperature
           ELSE IF config.default_max_tokens # "none" THEN config.default_max_tokens
           ELSE "1024"]

NoRequest == [messages |-> <<>>, parameters |-> <<>>, system |-> "none"]

\* a general_context call: what it raised, the validation errors or the
\* request it returned, and the messages and parameters it found
NoServed ==
    [op |-> "none", key |-> "", value |-> "", raised |-> "none", errors |-> {},
     request |-> NoRequest,
     before |-> [messages |-> <<>>, parameters |-> <<>>, system |-> "none", model |-> ""]]

\* ------------------------------------- legacy contexts (model_context)
Providers == {"OpenAI", "DeepSeek", "ClaudeAI"}
QuestionTypes == {"General", "Behavioral", "SystemDesign", "Coding"}

\* the history is not let grow past this many messages
MaxHistory == 3

\* size_t and int, scaled: an int has IntBits bits, a size_t twice as many
IntBits == 7
IntModulus == 2 ^ IntBits
SizeModulus == 2 ^ (2 * IntBits)

\* static_cast<int>(size_t): the value modulo 2^IntBits, as a signed int
ToInt(x) ==
    LET r == x % IntModulus
    IN IF r >= IntModulus \div 2 THEN r - IntModulus ELSE r

\* the conversion of an int to size_t: the value modulo 2^(2 * IntBits)
ToSize(i) == i % SizeModulus

Min(a, b) == IF a <= b THEN a ELSE b
Max(a, b) == IF a >= b THEN a ELSE b

\* MAX_CONTENT_LENGTH of openai_context and claudeai_context, and of
\* deepseek_context; the upper end of claudeai_context's limit
MaxContentLength == 20
MaxContentLengthDeepSeek == 8
ClaudeLimitMax == 50

DefaultMaxContextLength(provider) ==
    IF provider = "DeepSeek" THEN MaxContentLengthDeepSeek ELSE MaxContentLength

\* the lengths given to set_max_context_length: small ones, one above the
\* upper end, and three that do not fit an int (the last two are 0 and 2
\* once narrowed)
Lengths == {0, 1, 2, 60, 2 ^ (IntBits - 1), IntModulus, IntModulus + 2}

\* the prompts: user_message, extended_message, question_type, is_multi_turn
\* (no image)
Prompts ==
    [user_message : {<<>>, <<"p">>}, extended_message : {<<"e">>},
     question_type : QuestionTypes, is_multi_turn : BOOLEAN]

\* prompt::get_combined_prompt
get_combined_prompt(prompt) == prompt.user_message \o prompt.extended_message

\* a trim that drops the newest messages
trim_history_newest(history, max) ==
    IF Len(history) <= max THEN history
    ELSE LET has_system == history # <<>> /\ history[1].role = "system"
             preserve == IF has_system THEN 1 ELSE 0
             keep == Min(max + preserve, Len(history))
         IN SubSeq(history, 1, keep)

\* a trim that does nothing
trim_history_none(history, max) == history

\* trim_history (the same in the three contexts): erase, after a leading
\* system message, as many messages as the history has above the limit
trim_history(history, max) ==
    IF Len(history) <= max THEN history
    ELSE LET has_system == history # <<>> /\ history[1].role = "system"
             preserve == IF has_system THEN 1 ELSE 0
             keep == Min(max + preserve, Len(history))
             remove == Len(history) - keep
         IN SubSeq(history, 1, preserve)
                \o SubSeq(history, preserve + remove + 1, Len(history))

\* the history a non-multi-turn prompt starts from
Cleared(history, prompt) == IF prompt.is_multi_turn THEN history ELSE <<>>

\* claudeai_context::add_user_message: an empty user_message gives a message
\* with no text
claudeai_add_user_message(history, max, prompt) ==
    LET h == Cleared(history, prompt)
        text == IF prompt.user_message = <<>> THEN <<>>
                ELSE IF h = <<>> THEN get_combined_prompt(prompt)
                ELSE prompt.user_message
    IN trim_history(Append(h, UserMsg(text)), max)

\* openai_context::add_user_message: an empty user_message gives the
\* placeholder text
openai_add_user_message(history, max, prompt) ==
    LET h == Cleared(history, prompt)
        text == IF prompt.user_message = <<>> THEN <<"[empty message]">>
                ELSE IF h = <<>> THEN get_combined_prompt(prompt)
                ELSE prompt.user_message
    IN trim_history(Append(h, UserMsg(text)), max)

\* deepseek_context::add_user_message
deepseek_add_user_message(history, max, prompt) ==
    LET h == Cleared(history, prompt)
        text == IF h = <<>> THEN get_combined_prompt(prompt) ELSE prompt.user_message
    IN trim_history(Append(h, UserMsg(text)), max)

context_add_user_message(provider, history, max, prompt) ==
    CASE provider = "ClaudeAI" -> claudeai_add_user_message(history, max, prompt)
      [] provider = "OpenAI" -> openai_add_user_message(history, max, prompt)
      [] provider = "DeepSeek" -> deepseek_add_user_message(history, max, prompt)

\* an add_assistant_message that does not trim
context_add_assistant_message_untrimmed(history, max, message) ==
    Append(history, AssistantMsg(message))

\* add_assistant_message (the same in the three contexts up to the JSON form
\* of the content)
context_add_assistant_message(history, max, message) ==
    trim_history(Append(history, AssistantMsg(message)), max)

\* claudeai_context::set_max_context_length
claudeai_set_max_context_length(length) == ToSize(Min(ToInt(Max(1, length)), ClaudeLimitMax))

\* openai_context::set_max_context_length, deepseek_context::set_max_context_length
openai_set_max_context_length(length) == Max(1, length)

context_set_max_context_length(provider, length) ==
    IF provider = "ClaudeAI" THEN claudeai_set_max_context_length(length)
    ELSE openai_set_max_context_length(length)

\* The responses handed to process_response and get_assistant_reply.  json
\* says whether the text parses; error is the form of an `error` member:
\* "message" for {"error": {"message": ...}}, "bare" for {"error": "..."};
\* shape is the rest of the object:
\*   "choices_string"     {"choices": [{"message": {"content": text}}]}
\*   "choices_array"      ... {"content": [{"type": "text", "text": text}]}
\*   "choices_empty"      {"choices": []}
\*   "choices_nomessage"  {"choices": [{}]}
\*   "content_array"      {"content": [{"type": "text", "text": text}]}
\*   "none"               {}
ResponseShapes ==
    {"choices_string", "choices_array", "choices_empty", "choices_nomessage",
     "content_array", "none"}
ResponseTexts == {<<>>, <<"r">>}

NotJson == [json |-> FALSE, error |-> "none", shape |-> "none", text |-> <<>>]

LegacyResponses ==
    {NotJson}
        \cup [json : {TRUE}, error : {"none"}, shape : ResponseShapes, text : ResponseTexts]
        \cup [json : {TRUE}, error : {"message", "bare"},
              shape : {"none", "choices_string", "content_array"}, text : {<<"r">>}]

\* what process_response does: threw, and the history with appended saying
\* whether a message was pushed to it
Processed(threw, appended, history) ==
    [threw |-> threw, appended |-> appended, history |-> history]

\* claudeai_context::process_response: the text items of `content` are
\* concatenated and pushed when the result is not empty
claudeai_process_response(history, max, r) ==
    IF r.shape = "content_array" /\ r.text # <<>>
    THEN Processed(FALSE, TRUE, trim_history(Append(history, AssistantMsg(r.text)), max))
    ELSE Processed(FALSE, FALSE, history)

\* openai_context::process_response: the content of the first choice, a
\* string or an array of text items, is added when it is not empty
openai_process_response(history, max, r) ==
    IF r.shape \in {"choices_string", "choices_array"} /\ r.text # <<>>
    THEN Processed(FALSE, TRUE, context_add_assistant_message(history, max, r.text))
    ELSE Processed(FALSE, FALSE, history)

\* deepseek_context::process_response: the content of the first choice is
\* read as a string, which throws for an array, and added
deepseek_process_response(history, max, r) ==
    IF r.shape = "choices_array" THEN Processed(TRUE, FALSE, history)
    ELSE IF r.shape = "choices_string"
    THEN Processed(FALSE, TRUE, context_add_assistant_message(history, max, r.text))
    ELSE Processed(FALSE, FALSE, history)

context_process_response(provider, history, max, r) ==
    CASE provider = "ClaudeAI" -> claudeai_process_response(history, max, r)
      [] provider = "OpenAI" -> openai_process_response(history, max, r)
      [] provider = "DeepSeek" -> deepseek_process_response(history, max, r)

\* chat_api::api_response
ApiResponse(success, content, error) ==
    [success |-> success, content |-> content, error |-> error]

\* the content get_assistant_reply extracts for the provider: found, and the
\* text
Extracted(provider, r) ==
    IF provider = "ClaudeAI"
    THEN [success |-> r.shape = "content_array",
          content |-> IF r.shape = "content_array" THEN r.text ELSE <<>>]
    ELSE [success |-> r.shape \in {"choices_string", "choices_array"},
          content |-> IF r.shape \in {"choices_string", "choices_array"}
                      THEN r.text ELSE <<>>]

\* a get_assistant_reply that gives the response to the context before it
\* looks for an `error` member
get_assistant_reply_unchecked(provider, history, max, r) ==
    LET p == context_process_response(provider, history, max, r)
        e == Extracted(provider, r)
    IN IF ~r.json THEN [reply |-> ApiResponse(FALSE, <<>>, "JSON parse error"),
                        appended |-> FALSE, history |-> history]
       ELSE IF p.threw
       THEN [reply |-> ApiResponse(FALSE, <<>>, "Error processing response"),
             appended |-> FALSE, history |-> history]
       ELSE [reply |-> IF e.success /\ e.content # <<>>
                       THEN ApiResponse(TRUE, e.content, "")
                       ELSE ApiResponse(FALSE, <<>>, "Malformed API response"),
             appended |-> p.appended, history |-> p.history]

\* chat_api::get_assistant_reply: the reply, and the history as
\* process_response leaves it
get_assistant_reply(provider, history, max, r) ==
    LET p == context_process_response(provider, history, max, r)
        e == Extracted(provider, r)
    IN IF ~r.json THEN [reply |-> ApiResponse(FALSE, <<>>, "JSON parse error"),
                        appended |-> FALSE, history |-> history]
       ELSE IF r.error = "message"
       THEN [reply |-> ApiResponse(FALSE, <<>>, "error message"),
             appended |-> FALSE, history |-> history]
       ELSE IF r.error = "bare" \/ p.threw
       THEN [reply |-> ApiResponse(FALSE, <<>>, "Error processing response"),
             appended |-> FALSE, history |-> history]
       ELSE [reply |-> IF e.success /\ e.content # <<>>
                       THEN ApiResponse(TRUE, e.content, "")
                       ELSE ApiResponse(FALSE, <<>>, "Malformed API response"),
             appended |-> p.appended, history |-> p.history]

\* config.h: the system prompts; two of them are empty strings
GENERAL_SYSPROMPT == <<"You are a helpful assistant">>
BEHAVIORAL_SYSPROMPT == <<>>
SYSTEM_DESIGN_SYSPROMPT == <<>>

SystemMsg(t) == [role |-> "system", content |-> t]
NotSystem(m) == m.role # "system"

\* openai_context::generate_payload: payload["messages"] for a question type
\* of the enumeration.  The second and the third branch test the same type.
openai_generate_payload(history, type) ==
    IF type = "Behavioral"
    THEN LET has_system == history # <<>> /\ history[1].role = "system"
             start_idx == IF has_system THEN 1 ELSE 0
         IN (IF has_system THEN <<history[1]>> ELSE <<SystemMsg(BEHAVIORAL_SYSPROMPT)>>)
                \o SubSeq(history, start_idx + 1, Len(history))
    ELSE IF type = "SystemDesign"
    THEN <<SystemMsg(SYSTEM_DESIGN_SYSPROMPT)>> \o SelectSeq(history, NotSystem)
    ELSE IF type = "SystemDesign"
    THEN <<SystemMsg(GENERAL_SYSPROMPT)>> \o SelectSeq(history, NotSystem)
    ELSE history

\* generate_payload (the three contexts): it throws invalid_argument for a
\* question type outside the enumeration and for nothing else
generate_payload_raises(type) == type \notin QuestionTypes

\* the bytes a transfer of send has to deliver
LegacyBodies == {<<"x">>, <<"x", "y">>}

\* a legacy call: operation, the response given, the reply, whether a
\* message was pushed, the history and the limit it found
NoPrompt ==
    [user_message |-> <<>>, extended_message |-> <<>>, question_type |-> "General",
     is_multi_turn |-> FALSE]

NoLegacy ==
    [op |-> "none", response |-> NotJson, reply |-> ApiResponse(FALSE, <<>>, ""),
     appended |-> FALSE, before |-> <<>>, limit |-> 0, threw |-> FALSE,
     length |-> 0, prompt |-> NoPrompt, messages |-> <<>>]

\* chat_api::send in progress: phase, the should_cancel predicate's answer,
\* still_running, read_buffer, the bytes still to come, whether cancel() was
\* called during it, and how it ended
NoSending ==
    [phase |-> "idle", should_cancel |-> FALSE, still_running |-> FALSE,
     read_buffer |-> <<>>, wire |-> <<>>, failed |-> FALSE, cancelled |-> FALSE,
     flag_at_start |-> FALSE, outcome |-> "none", body |-> <<>>, performed |-> FALSE,
     question_type |-> "General"]

\* --------------------------------------------------------- context factory
\* a thread's storage: whether the thread is alive, and for each provider
\* name the Context object it holds (0 for none; objects are numbered in the
\* order of their construction)
NoThreadContexts == [alive |-> TRUE, ctx |-> [p \in ProviderNames |-> 0]]

\* ------------------------------------------------- http_client's handle
\* the transfers one http_client is asked for
MaxTransfers == 3
TransferIds == 1..MaxTransfers

\* a transfer: the call it comes from and where its thread is: "queued"
\* before it touches the handle, "setopt" while it configures the handle,
\* "perform" inside curl_easy_perform, "done" after it
NoTransfer == [kind |-> "none", phase |-> "none"]

\* ------------------------------------------------------------------ state
\* ------------------------------------------------- API key and headers
\* the keys a caller gives a context; NoKey is a context without one
NoKey == "none"
ApiKeys == {"k1", "k2"}

\* general_context::get_headers: the schema's header templates with the
\* API-key placeholder substituted; without a key the placeholder stays
get_headers(api_key) ==
    <<"Content-Type: application/json",
      IF api_key = NoKey THEN "Authorization: <YOUR_API_KEY>" ELSE "Authorization: " \o api_key>>

VARIABLES
    m_messages,            \* general_context::m_messages
    supports_streaming,  \* general_context::supports_streaming()
    cancelFlag,          \* the caller's flag that its cancel predicate reads
    xfer,                \* the transfer in flight on the http_client's handle
    call,                \* the facade call being served: operation, argument,
                         \* the message list before it and as handed to the sink
    response,            \* the http_response of the last transfer
    result,              \* what the call returned or raised (the future's
                         \* content for an asynchronous send)
    stream,              \* the streaming transfer: bytes to come, callbacks made
    m_provider_paths,    \* schema_manager::m_provider_paths
    m_schema_directory,  \* schema_manager::m_schema_directory
    files,               \* the regular files on disk
    lookup,              \* the schema_manager call last served and its outcome
    threads,             \* per thread, the schema_manager call it is inside
    m_parameters,        \* general_context::m_parameters
    m_system_message,    \* general_context::m_system_message
    m_config,            \* general_context::m_config
    m_model_name,        \* general_context::m_model_name
    served,              \* the general_context call last served and its outcome
    provider,            \* the legacy chat_api's provider (get_llm_provider)
    m_history,           \* the legacy context's m_history
    m_max_context_length, \* the legacy context's m_max_context_length
    m_cancel_flag,       \* the legacy chat_api::m_cancel_flag
    sending,             \* the legacy chat_api::send in progress or last made
    legacy,              \* the legacy call last served and its outcome
    thread_contexts,     \* per thread, its Context object for each provider name
    created,             \* the Context objects constructed so far
    handed,              \* (thread, provider name, object) for every reference
                         \* get_thread_local_context has returned
    transfers,           \* the transfers of one http_client: kind and phase
    destroyed,           \* the chat_api (with its context and http_client) has
                         \* been destroyed
    m_api_key,           \* general_context's API key
    m_headers            \* http_client::m_headers, the headers of every request
                         \* the client posts

registryVars == <<m_provider_paths, m_schema_directory, files, lookup, threads>>
contextVars == <<m_parameters, m_system_message, m_config, m_model_name, served>>
legacyVars == <<provider, m_history, m_max_context_length, m_cancel_flag, sending, legacy>>
factoryVars == <<thread_contexts, created, handed>>
handleVars == <<transfers>>
clientVars == <<destroyed, m_api_key, m_headers>>
restVars == <<legacyVars, factoryVars, handleVars, clientVars>>

vars == <<m_messages, supports_streaming, cancelFlag, xfer, call, response, result, stream,
          registryVars, contextVars, restVars>>

NoXfer == [kind |-> "none", pred |-> FALSE, aborted |-> FALSE, sawCancel |-> FALSE]
NoCall == [op |-> "none", arg |-> <<>>, pre |-> <<>>, posted |-> <<>>]
NoResponse == [res |-> "none", success |-> FALSE, status_code |-> 0,
               body |-> <<>>, error_message |-> <<>>]
NoResult == [kind |-> "none", text |-> <<>>, what |-> <<>>]
NoStream == [frames |-> <<>>, wire |-> <<>>, delivered |-> <<>>, chunks |-> <<>>,
             completions |-> <<>>, on_complete |-> FALSE, refused |-> FALSE,
             running |-> 0]

\* a chat_api constructed over a context that has no API key
InitClient ==
    /\ destroyed = FALSE
    /\ m_api_key = NoKey
    /\ m_headers = get_headers(m_api_key)

\* the legacy chat_api, the context factory and the http_client's transfers
\* as constructed
InitBack ==
    /\ provider = "OpenAI"
    /\ m_history = <<>>
    /\ m_max_context_length = DefaultMaxContextLength(provider)
    /\ m_cancel_flag = FALSE
    /\ sending = NoSending
    /\ legacy = NoLegacy
    /\ thread_contexts = [t \in Threads |-> NoThreadContexts]
    /\ created = 0
    /\ handed = {}
    /\ transfers = [i \in TransferIds |-> NoTransfer]

InitRest == InitClient /\ InitBack

Init ==
    /\ m_messages = <<>>
    /\ supports_streaming \in BOOLEAN
    /\ cancelFlag = FALSE
    /\ xfer = NoXfer
    /\ call = NoCall
    /\ response = NoResponse
    /\ result = NoResult
    /\ stream = NoStream
    /\ m_provider_paths = <<>>
    /\ m_schema_directory = DefaultSchemaDirectory
    /\ files = {}
    /\ lookup = NoLookup
    /\ threads = [t \in Threads |-> NoThreadCall]
    /\ m_config = DefaultConfig
    /\ m_parameters = DefaultParameters(m_config)
    /\ m_system_message = "none"
    /\ m_model_name = DefaultModel
    /\ served = NoServed
    /\ InitRest

\* ---------------------------------------------------------- caller actions
\* call, xfer, response, result and stream describe the facade call being
\* served or last served.  The caller is done with them, and re-arms its
\* cancel flag, before it edits the context or makes the next call.
Forget ==
    /\ call' = NoCall
    /\ xfer' = NoXfer
    /\ response' = NoResponse
    /\ result' = NoResult
    /\ stream' = NoStream
    /\ cancelFlag' = FALSE

Idle == xfer.kind = "none" /\ call = NoCall

\* the caller has taken the outcome of the call (the returned text, the
\* exception, the future's value, the completion callback)
CallerContinues ==
    /\ xfer.kind = "none"
    /\ call # NoCall
    /\ Forget
    /\ UNCHANGED <<m_messages, supports_streaming>>
    /\ UNCHANGED <<registryVars, contextVars, restVars>>

\* general_context::add_user_message (text only)
add_user_message(t) ==
    /\ xfer.kind = "none"
    /\ Len(m_messages) < MaxMsgs
    /\ m_messages' = Append(m_messages, UserMsg(t))
    /\ Forget
    /\ UNCHANGED supports_streaming
    /\ served' = NoServed
    /\ UNCHANGED <<registryVars, m_parameters, m_system_message, m_config, m_model_name,
                   restVars>>

\* general_context::add_assistant_message
add_assistant_message(t) ==
    /\ xfer.kind = "none"
    /\ Len(m_messages) < MaxMsgs
    /\ m_messages' = Append(m_messages, AssistantMsg(t))
    /\ Forget
    /\ UNCHANGED supports_streaming
    /\ served' = NoServed
    /\ UNCHANGED <<registryVars, m_parameters, m_system_message, m_config, m_model_name,
                   restVars>>

\* the caller (any thread) sets the flag its cancel predicate reads while a
\* transfer is in flight
SetCancelFlag ==
    /\ xfer.kind # "none"
    /\ ~cancelFlag
    /\ cancelFlag' = TRUE
    /\ UNCHANGED <<m_messages, supports_streaming, xfer, call, response, result, stream>>
    /\ UNCHANGED <<registryVars, contextVars, restVars>>

\* chat_api::send_message(message, cancel_check) up to the blocking post
send_message_head(op, t, pred) ==
    /\ Idle
    /\ \E cleared \in clear_user_messages(m_messages) :
          /\ Len(cleared) < MaxMsgs
          /\ m_messages' = Append(cleared, UserMsg(t))
    /\ call' = [op |-> op, arg |-> t, pre |-> m_messages, posted |-> m_messages']
    /\ xfer' = [kind |-> "post", pred |-> pred, aborted |-> FALSE, sawCancel |-> FALSE]
    /\ response' = NoResponse
    /\ result' = NoResult
    /\ stream' = NoStream
    /\ UNCHANGED <<supports_streaming, cancelFlag>>
    /\ UNCHANGED m_headers
    /\ UNCHANGED <<registryVars, contextVars, legacyVars, factoryVars, handleVars,
                   destroyed, m_api_key>>

send_message(t, pred) == send_message_head("send_message(message)", t, pred)

\* chat_api::send_message(cancel_check) up to the blocking post
send_message_ctx_head(op, pred) ==
    /\ Idle
    /\ call' = [op |-> op, arg |-> <<>>, pre |-> m_messages, posted |-> m_messages]
    /\ response' = NoResponse
    /\ stream' = NoStream
    /\ IF ~has_user_message(m_messages)
       THEN /\ result' = Raise(<<"No user message found in context">>)
            /\ xfer' = NoXfer
            /\ UNCHANGED m_headers
       ELSE /\ result' = NoResult
            /\ xfer' = [kind |-> "post", pred |-> pred, aborted |-> FALSE,
                        sawCancel |-> FALSE]
            /\ m_headers' = get_headers(m_api_key)
    /\ UNCHANGED <<m_messages, supports_streaming, cancelFlag>>
    /\ UNCHANGED <<registryVars, contextVars, legacyVars, factoryVars, handleVars,
                   destroyed, m_api_key>>

send_message_ctx(pred) == send_message_ctx_head("send_message()", pred)

\* chat_api::send_message_async(message): the worker runs send_message(message)
\* with the default (null) cancel_check
send_message_async(t) == send_message_head("send_message_async(message)", t, FALSE)

\* chat_api::send_message_async(): the worker runs send_message()
send_message_async_ctx == send_message_ctx_head("send_message_async()", FALSE)

\* ------------------------------------------------------------ sink actions
\* libcurl calls the XFERINFOFUNCTION during the transfer; a non-zero return
\* aborts the transfer
ProgressCallback ==
    /\ xfer.kind # "none"
    /\ ~xfer.aborted
    /\ stream.running = 0
    /\ xfer' = [xfer EXCEPT
                  !.aborted = (progress_callback_wrapper(xfer.pred, cancelFlag) # 0),
                  !.sawCancel = (@ \/ cancelFlag)]
    /\ UNCHANGED <<m_messages, supports_streaming, cancelFlag, call, response, result, stream>>
    /\ UNCHANGED <<registryVars, contextVars, restVars>>

\* curl_easy_perform returns inside http_client::post; post builds the
\* response and send_message returns or raises
PostReturn ==
    /\ xfer.kind = "post"
    /\ \E o \in (IF xfer.aborted THEN {AbortOutcome} ELSE Outcomes) :
          /\ response' = post(o)
          /\ result' = send_message_tail(response')
    /\ xfer' = [xfer EXCEPT !.kind = "none"]
    /\ UNCHANGED <<m_messages, supports_streaming, cancelFlag, call, stream>>
    /\ UNCHANGED <<registryVars, contextVars, restVars>>

Next ==
    \/ \E t \in UserTexts : add_user_message(t)
    \/ \E t \in AssistantTexts : add_assistant_message(t)
    \/ CallerContinues
    \/ SetCancelFlag
    \/ \E t \in UserTexts, pred \in BOOLEAN : send_message(t, pred)
    \/ \E pred \in BOOLEAN : send_message_ctx(pred)
    \/ \E t \in UserTexts : send_message_async(t)
    \/ send_message_async_ctx
    \/ ProgressCallback
    \/ PostReturn

Spec == Init /\ [][Next]_vars

\* -------------------------------------------------------- streaming sends
\* a message overload that sends without asking the context for its streaming
\* support
send_message_stream_unchecked(t, on_complete, pred, frames) ==
    /\ Idle
    /\ response' = NoResponse
    /\ \E cleared \in clear_user_messages(m_messages) :
          /\ Len(cleared) < MaxMsgs
          /\ m_messages' = Append(cleared, UserMsg(t))
    /\ call' = [op |-> "send_message_stream(message)", arg |-> t,
                pre |-> <<>>, posted |-> m_messages']
    /\ result' = [kind |-> "void", text |-> <<>>, what |-> <<>>]
    /\ stream' = [NoStream EXCEPT !.frames = frames,
                                  !.wire = Serialize(frames),
                                  !.on_complete = on_complete]
    /\ xfer' = [kind |-> "stream", pred |-> pred, aborted |-> FALSE,
                sawCancel |-> FALSE]
    /\ UNCHANGED <<supports_streaming, cancelFlag>>
    /\ UNCHANGED m_headers
    /\ UNCHANGED <<registryVars, contextVars, legacyVars, factoryVars, handleVars,
                   destroyed, m_api_key>>

\* chat_api::send_message_stream(message, on_chunk, on_complete, cancel_check):
\* returns once http_client::post_stream has started the detached task.  An
\* accepted call records the list handed to the sink (posted); the list
\* before the call is recorded only when the call raises.
send_message_stream(t, on_complete, pred, frames) ==
    /\ Idle
    /\ response' = NoResponse
    /\ IF ~supports_streaming
       THEN /\ result' = Raise(<<"Streaming is not supported by this provider">>)
            /\ call' = [op |-> "send_message_stream(message)", arg |-> t,
                        pre |-> m_messages, posted |-> <<>>]
            /\ stream' = NoStream
            /\ xfer' = NoXfer
            /\ UNCHANGED <<m_messages, m_headers>>
       ELSE /\ \E cleared \in clear_user_messages(m_messages) :
                  /\ Len(cleared) < MaxMsgs
                  /\ m_messages' = Append(cleared, UserMsg(t))
            /\ call' = [op |-> "send_message_stream(message)", arg |-> t,
                        pre |-> <<>>, posted |-> m_messages']
            /\ result' = [kind |-> "void", text |-> <<>>, what |-> <<>>]
            /\ stream' = [NoStream EXCEPT !.frames = frames,
                                          !.wire = Serialize(frames),
                                          !.on_complete = on_complete]
            /\ xfer' = [kind |-> "stream", pred |-> pred, aborted |-> FALSE,
                        sawCancel |-> FALSE]
            /\ UNCHANGED m_headers
    /\ UNCHANGED <<supports_streaming, cancelFlag>>
    /\ UNCHANGED <<registryVars, contextVars, legacyVars, factoryVars, handleVars,
                   destroyed, m_api_key>>

\* chat_api::send_message_stream(on_chunk, on_complete, cancel_check)
send_message_stream_ctx(on_complete, pred, frames) ==
    /\ Idle
    /\ response' = NoResponse
    /\ call' = [op |-> "send_message_stream()", arg |-> <<>>,
                pre |-> m_messages, posted |-> m_messages]
    /\ IF ~supports_streaming
       THEN /\ result' = Raise(<<"Streaming is not supported by this provider">>)
            /\ stream' = NoStream
            /\ xfer' = NoXfer
            /\ UNCHANGED m_headers
       ELSE IF ~has_user_message(m_messages)
       THEN /\ result' = Raise(<<"No user message found in context">>)
            /\ stream' = NoStream
            /\ xfer' = NoXfer
            /\ UNCHANGED m_headers
       ELSE /\ result' = [kind |-> "void", text |-> <<>>, what |-> <<>>]
            /\ stream' = [NoStream EXCEPT !.frames = frames,
                                          !.wire = Serialize(frames),
                                          !.on_complete = on_complete]
            /\ xfer' = [kind |-> "stream", pred |-> pred, aborted |-> FALSE,
                        sawCancel |-> FALSE]
            /\ m_headers' = get_headers(m_api_key)
    /\ UNCHANGED <<m_messages, supports_streaming, cancelFlag>>
    /\ UNCHANGED <<registryVars, contextVars, legacyVars, factoryVars, handleVars,
                   destroyed, m_api_key>>

\* a writer that hands the chunk to the callback without waiting for the
\* callback of the chunk before it
stream_writer_detached(k, ret) ==
    /\ xfer.kind = "stream"
    /\ ~xfer.aborted
    /\ k <= Len(stream.wire)
    /\ LET chunk == SubSeq(stream.wire, 1, k)
           out == IF call.op = "send_message_stream(message)"
                  THEN OnChunkMsg(chunk) ELSE OnChunkCtx(chunk)
       IN stream' = [stream EXCEPT !.wire = Substr(@, k),
                                   !.delivered = @ \o chunk,
                                   !.chunks = @ \o out,
                                   !.refused = (@ \/ (out # <<>> /\ ~ret)),
                                   !.running = @ + 1]
    /\ UNCHANGED <<m_messages, supports_streaming, cancelFlag, xfer, call, response, result>>
    /\ UNCHANGED <<registryVars, contextVars, restVars>>

\* libcurl, inside curl_easy_perform on the task's thread, hands the next k
\* bytes to stream_writer, which runs the facade's on_chunk lambda (and
\* through it the caller's on_chunk, once per text, one after the other) and
\* returns size * nmemb whatever the lambda did; ret is what the caller's
\* on_chunk returns.  stream.running counts the writer calls in progress.
stream_writer(k, ret) ==
    /\ xfer.kind = "stream"
    /\ ~xfer.aborted
    /\ stream.running = 0
    /\ k <= Len(stream.wire)
    /\ LET chunk == SubSeq(stream.wire, 1, k)
           out == IF call.op = "send_message_stream(message)"
                  THEN OnChunkMsg(chunk) ELSE OnChunkCtx(chunk)
       IN stream' = [stream EXCEPT !.wire = Substr(@, k),
                                   !.delivered = @ \o chunk,
                                   !.chunks = @ \o out,
                                   !.refused = (@ \/ (out # <<>> /\ ~ret)),
                                   !.running = @ + 1]
    /\ UNCHANGED <<m_messages, supports_streaming, cancelFlag, xfer, call, response, result>>
    /\ UNCHANGED <<registryVars, contextVars, restVars>>

\* stream_writer returns to libcurl
stream_writer_return ==
    /\ xfer.kind = "stream"
    /\ stream.running > 0
    /\ stream' = [stream EXCEPT !.running = @ - 1]
    /\ UNCHANGED <<m_messages, supports_streaming, cancelFlag, xfer, call, response, result>>
    /\ UNCHANGED <<registryVars, contextVars, restVars>>

\* a task that reports only the transfers that succeeded
StreamReturn_on_success ==
    /\ xfer.kind = "stream"
    /\ stream.running = 0
    /\ \E o \in (IF xfer.aborted THEN {AbortOutcome} ELSE StreamOutcomes(stream.wire)) :
          /\ response' = post_stream_task(o)
          /\ stream' = [stream EXCEPT !.completions =
                           IF stream.on_complete /\ response'.success
                           THEN Append(@, response') ELSE @]
    /\ xfer' = [xfer EXCEPT !.kind = "none"]
    /\ UNCHANGED <<m_messages, supports_streaming, cancelFlag, call, result>>
    /\ UNCHANGED <<registryVars, contextVars, restVars>>

\* curl_easy_perform returns inside the task; the task builds the response and
\* calls on_complete (the facade's lambda, which calls the caller's when set)
StreamReturn ==
    /\ xfer.kind = "stream"
    /\ stream.running = 0
    /\ \E o \in (IF xfer.aborted THEN {AbortOutcome} ELSE StreamOutcomes(stream.wire)) :
          /\ response' = post_stream_task(o)
          /\ stream' = [stream EXCEPT !.completions =
                           IF stream.on_complete THEN Append(@, response') ELSE @]
    /\ xfer' = [xfer EXCEPT !.kind = "none"]
    /\ UNCHANGED <<m_messages, supports_streaming, cancelFlag, call, result>>
    /\ UNCHANGED <<registryVars, contextVars, restVars>>

\* the streaming specification keeps the context small: the caller adds the
\* user text "p" and streams the user text "q"
StreamAddTexts == {<<"p">>}
StreamSendTexts == {<<"q">>}

NextStream ==
    \/ \E t \in StreamAddTexts : add_user_message(t)
    \/ CallerContinues
    \/ SetCancelFlag
    \/ \E t \in StreamSendTexts, oc \in BOOLEAN, pred \in BOOLEAN, fs \in FrameSeqs :
          send_message_stream(t, oc, pred, fs)
    \/ \E oc \in BOOLEAN, pred \in BOOLEAN, fs \in FrameSeqs :
          send_message_stream_ctx(oc, pred, fs)
    \/ \E k \in 1..Len(stream.wire), ret \in BOOLEAN : stream_writer(k, ret)
    \/ stream_writer_return
    \/ ProgressCallback
    \/ StreamReturn

SpecStream == Init /\ [][NextStream]_vars

\* the task of one streaming send seen step by step: the caller passes an
\* on_complete and no cancel predicate
NextStreamTask ==
    \/ \E t \in StreamAddTexts : add_user_message(t)
    \/ CallerContinues
    \/ \E t \in StreamSendTexts, fs \in FrameSeqs :
          send_message_stream(t, TRUE, FALSE, fs)
    \/ \E fs \in FrameSeqs : send_message_stream_ctx(TRUE, FALSE, fs)
    \/ \E k \in 1..Len(stream.wire), ret \in BOOLEAN : stream_writer(k, ret)
    \/ stream_writer_return
    \/ StreamReturn

SpecStreamTask == Init /\ [][NextStreamTask]_vars

\* streams with frames the facade cannot use: `data: {!}` parses but has no
\* text at text_path, `data: {x}` is not JSON
MalformedKinds == {"!", "x"}

MalformedFrameSeqs ==
    {fs \in UNION {[1..n -> Letters \cup MalformedKinds] : n \in 1..MaxFrames} :
        \E i \in 1..Len(fs) : fs[i] \in MalformedKinds}

NextStreamFrames ==
    \/ \E t \in StreamAddTexts : add_user_message(t)
    \/ CallerContinues
    \/ \E t \in StreamSendTexts, fs \in MalformedFrameSeqs :
          send_message_stream(t, TRUE, FALSE, fs)
    \/ \E fs \in MalformedFrameSeqs : send_message_stream_ctx(TRUE, FALSE, fs)
    \/ \E k \in 1..Len(stream.wire), ret \in BOOLEAN : stream_writer(k, ret)
    \/ stream_writer_return
    \/ StreamReturn

SpecStreamFrames == Init /\ [][NextStreamFrames]_vars

\* ------------------------------------------------- schema_manager actions
facadeVars == <<m_messages, supports_streaming, cancelFlag, xfer, call, response, result, stream>>

\* the singleton as constructed, over any content of the disk
InitRegistry ==
    /\ m_messages = <<>>
    /\ supports_streaming = FALSE
    /\ cancelFlag = FALSE
    /\ xfer = NoXfer
    /\ call = NoCall
    /\ response = NoResponse
    /\ result = NoResult
    /\ stream = NoStream
    /\ m_provider_paths = <<>>
    /\ m_schema_directory = DefaultSchemaDirectory
    /\ files \in SUBSET FileUniverse
    /\ lookup = NoLookup
    /\ threads = [t \in Threads |-> NoThreadCall]
    /\ m_config = DefaultConfig
    /\ m_parameters = DefaultParameters(m_config)
    /\ m_system_message = "none"
    /\ m_model_name = DefaultModel
    /\ served = NoServed
    /\ InitRest

\* a call of schema_manager::register_schema_path
do_register_schema_path(provider_name, schema_path) ==
    /\ m_provider_paths' = register_schema_path(m_provider_paths, provider_name, schema_path)
    /\ lookup' = [op |-> "register_schema_path", name |-> provider_name,
                  value |-> "void", crashed |-> FALSE]
    /\ UNCHANGED <<m_schema_directory, files, threads, facadeVars, contextVars, restVars>>

\* a set_schema_directory that starts the registry afresh
do_set_schema_directory_reset(directory) ==
    /\ m_schema_directory' = set_schema_directory(directory)
    /\ m_provider_paths' = <<>>
    /\ lookup' = [op |-> "set_schema_directory", name |-> "", value |-> "void",
                  crashed |-> FALSE]
    /\ UNCHANGED <<files, threads, facadeVars, contextVars, restVars>>

\* a call of schema_manager::set_schema_directory
do_set_schema_directory(directory) ==
    /\ m_schema_directory' = set_schema_directory(directory)
    /\ lookup' = [op |-> "set_schema_directory", name |-> "", value |-> "void",
                  crashed |-> FALSE]
    /\ UNCHANGED <<m_provider_paths, files, threads, facadeVars, contextVars, restVars>>

\* a call of schema_manager::is_provider_available
do_is_provider_available(provider_name) ==
    /\ lookup' = [op |-> "is_provider_available", name |-> provider_name,
                  value |-> is_provider_available(m_provider_paths, m_schema_directory,
                                                  files, provider_name),
                  crashed |-> FALSE]
    /\ UNCHANGED <<m_provider_paths, m_schema_directory, files, threads, facadeVars, contextVars, restVars>>

\* a call of schema_manager::get_available_providers
do_get_available_providers ==
    /\ \E providers \in get_available_providers(m_provider_paths, m_schema_directory, files) :
          lookup' = [op |-> "get_available_providers", name |-> "", value |-> providers,
                     crashed |-> FALSE]
    /\ UNCHANGED <<m_provider_paths, m_schema_directory, files, threads, facadeVars, contextVars, restVars>>

\* a call of schema_manager::create_context, with a config or without (the
\* overload without one passes a default-constructed config on)
do_create_context(provider_name, with_config) ==
    /\ \E made \in create_context(m_provider_paths, m_schema_directory, files, provider_name) :
          lookup' = [op |-> IF with_config THEN "create_context(name, config)"
                                          ELSE "create_context(name)",
                     name |-> provider_name, value |-> made, crashed |-> FALSE]
    /\ UNCHANGED <<m_provider_paths, m_schema_directory, files, threads, facadeVars, contextVars, restVars>>

NextRegistry ==
    \/ \E n \in ProviderNames, path \in RegisteredPaths : do_register_schema_path(n, path)
    \/ \E d \in DirectoryInputs : do_set_schema_directory(d)
    \/ \E n \in ProviderNames : do_is_provider_available(n)
    \/ do_get_available_providers
    \/ \E n \in ProviderNames, with_config \in BOOLEAN : do_create_context(n, with_config)

SpecRegistry == InitRegistry /\ [][NextRegistry]_vars

\* ------------------------------------------- schema_manager, several threads
\* The class has no mutex: a call is a thread entering a member function,
\* touching the members, and leaving.  Calls of different threads overlap.
RegistryReads(c) ==
    IF c.op \in {"is_provider_available", "create_context(name)"}
    THEN {"m_provider_paths"}
             \cup (IF c.name \in DOMAIN m_provider_paths THEN {} ELSE {"m_schema_directory"})
    ELSE IF c.op = "get_available_providers"
    THEN {"m_provider_paths", "m_schema_directory"}
    ELSE {}

RegistryWrites(c) ==
    IF c.op = "register_schema_path" THEN {"m_provider_paths"}
    ELSE IF c.op = "set_schema_directory" THEN {"m_schema_directory"}
    ELSE {}

\* two calls in progress touch the same member and one of them writes it
DataRace(c1, c2) ==
    \/ RegistryWrites(c1) \cap (RegistryReads(c2) \cup RegistryWrites(c2)) # {}
    \/ RegistryWrites(c2) \cap (RegistryReads(c1) \cup RegistryWrites(c1)) # {}

\* the calls the threads make
ThreadCalls ==
    [op : {"register_schema_path"}, name : {"p1"}, path : RegisteredPaths, raced : {FALSE}]
        \cup [op : {"set_schema_directory"}, name : {""}, path : {<<"t">>}, raced : {FALSE}]
        \cup [op : {"is_provider_available", "create_context(name)"}, name : {"p1"},
               path : {<<>>}, raced : {FALSE}]
        \cup [op : {"get_available_providers"}, name : {""}, path : {<<>>}, raced : {FALSE}]

\* one disk for the threads to look at
InitRegistryThreads ==
    /\ InitRegistry
    /\ files = {<<"s", "/", "p1", ".json">>, <<"t", "/", "p1", ".json">>}

\* thread t enters the member function of call c
ThreadEnter(t, c) ==
    /\ threads[t].op = "idle"
    /\ threads' = [u \in Threads |->
                      IF u = t
                      THEN [c EXCEPT !.raced =
                               \E v \in Threads \ {t} :
                                  threads[v].op # "idle" /\ DataRace(c, threads[v])]
                      ELSE IF threads[u].op # "idle" /\ DataRace(c, threads[u])
                      THEN [threads[u] EXCEPT !.raced = TRUE]
                      ELSE threads[u]]
    /\ UNCHANGED <<m_provider_paths, m_schema_directory, files, lookup, facadeVars, contextVars, restVars>>

\* what a call returns when no other call raced with it
CallValues(c) ==
    IF c.op = "is_provider_available"
    THEN {is_provider_available(m_provider_paths, m_schema_directory, files, c.name)}
    ELSE IF c.op = "create_context(name)"
    THEN create_context(m_provider_paths, m_schema_directory, files, c.name)
    ELSE IF c.op = "get_available_providers"
    THEN get_available_providers(m_provider_paths, m_schema_directory, files)
    ELSE {"void"}

\* what a call that was part of a data race can return: the behaviour is
\* undefined, any value of the return type, with or without a crash
RacedValues(c) ==
    IF c.op = "is_provider_available" THEN BOOLEAN
    ELSE IF c.op = "create_context(name)"
    THEN {[kind |-> "context", what |-> <<>>],
          [kind |-> "schema_exception", what |-> <<>>]}
    ELSE IF c.op = "get_available_providers"
    THEN UNION {[1..n -> ProviderNames] : n \in 0..Cardinality(ProviderNames)}
    ELSE {"void"}

\* thread t leaves the member function: the call takes effect
ThreadLeave(t) ==
    LET c == threads[t]
    IN /\ c.op # "idle"
       /\ threads' = [threads EXCEPT ![t] = NoThreadCall]
       /\ \E v \in (IF c.raced THEN RacedValues(c) ELSE CallValues(c)),
             crashed \in (IF c.raced THEN BOOLEAN ELSE {FALSE}) :
             lookup' = [op |-> c.op, name |-> c.name, value |-> v, crashed |-> crashed]
       /\ m_provider_paths' \in
             (IF c.op # "register_schema_path" THEN {m_provider_paths}
              ELSE {register_schema_path(m_provider_paths, c.name, c.path)}
                       \cup (IF c.raced THEN {m_provider_paths} ELSE {}))
       /\ m_schema_directory' \in
             (IF c.op # "set_schema_directory" THEN {m_schema_directory}
              ELSE {set_schema_directory(c.path)}
                       \cup (IF c.raced THEN {m_schema_directory, c.path} ELSE {}))
       /\ UNCHANGED <<files, facadeVars, contextVars, restVars>>

NextRegistryThreads ==
    \/ \E t \in Threads, c \in ThreadCalls :
          c.op = "register_schema_path" /\ ThreadEnter(t, c)
    \/ \E t \in Threads, c \in ThreadCalls :
          c.op = "set_schema_directory" /\ ThreadEnter(t, c)
    \/ \E t \in Threads, c \in ThreadCalls :
          c.op \in {"is_provider_available", "create_context(name)",
                    "get_available_providers"} /\ ThreadEnter(t, c)
    \/ \E t \in Threads : ThreadLeave(t)

SpecRegistryThreads == InitRegistryThreads /\ [][NextRegistryThreads]_vars

\* ------------------------------------------------ general_context actions
\* a context as constructed by create_context with any config
InitContext ==
    /\ m_messages = <<>>
    /\ supports_streaming = FALSE
    /\ cancelFlag = FALSE
    /\ xfer = NoXfer
    /\ call = NoCall
    /\ response = NoResponse
    /\ result = NoResult
    /\ stream = NoStream
    /\ m_provider_paths = <<>>
    /\ m_schema_directory = DefaultSchemaDirectory
    /\ files = {}
    /\ lookup = NoLookup
    /\ threads = [t \in Threads |-> NoThreadCall]
    /\ m_config \in Configs
    /\ m_parameters = DefaultParameters(m_config)
    /\ m_system_message = "none"
    /\ m_model_name = DefaultModel
    /\ served = NoServed
    /\ InitRest

Served(op) ==
    [NoServed EXCEPT !.op = op,
                     !.before = [messages |-> m_messages, parameters |-> m_parameters,
                                 system |-> m_system_message, model |-> m_model_name]]

\* validate_parameter: the schema's range for temperature ends at 2.0 and
\* max_tokens is at least 1; a null value is no value of any parameter
InRange(key, value) ==
    /\ value # "null"
    /\ ~(key = "temperature" /\ value = "3.0")
    /\ ~(key = "max_tokens" /\ value = "-1")

\* general_context::set_model: with validation on, a model the schema does not
\* list raises and changes nothing
set_model(model) ==
    /\ IF m_config.enable_validation /\ model \notin Models
       THEN /\ served' = [Served("set_model") EXCEPT !.raised = "validation_exception",
                                                     !.value = model]
            /\ UNCHANGED m_model_name
       ELSE /\ served' = [Served("set_model") EXCEPT !.value = model]
            /\ m_model_name' = model
    /\ UNCHANGED <<m_messages, m_parameters, m_system_message, m_config>>
    /\ UNCHANGED <<supports_streaming, cancelFlag, xfer, call, response, result, stream,
                   registryVars, restVars>>

\* general_context::set_system_message
set_system_message(system_text) ==
    /\ m_system_message' = system_text
    /\ served' = Served("set_system_message")
    /\ UNCHANGED <<m_messages, m_parameters, m_config, m_model_name>>
    /\ UNCHANGED <<supports_streaming, cancelFlag, xfer, call, response, result, stream,
                   registryVars, restVars>>

\* a set_parameter that stores the value without validating it
set_parameter_unvalidated(key, value) ==
    /\ served' = [Served("set_parameter") EXCEPT !.key = key, !.value = value]
    /\ m_parameters' = [k \in (DOMAIN m_parameters) \cup {key} |->
                           IF k = key THEN value ELSE m_parameters[k]]
    /\ UNCHANGED <<m_messages, m_system_message, m_config, m_model_name>>
    /\ UNCHANGED <<supports_streaming, cancelFlag, xfer, call, response, result, stream,
                   registryVars, restVars>>

\* general_context::set_parameter: with validation on, a null value or a value
\* outside the schema's range raises and changes nothing
set_parameter(key, value) ==
    /\ IF m_config.enable_validation /\ ~InRange(key, value)
       THEN /\ served' = [Served("set_parameter") EXCEPT !.raised = "validation_exception",
                                                         !.key = key, !.value = value]
            /\ UNCHANGED m_parameters
       ELSE /\ served' = [Served("set_parameter") EXCEPT !.key = key, !.value = value]
            /\ m_parameters' = [k \in (DOMAIN m_parameters) \cup {key} |->
                                   IF k = key THEN value ELSE m_parameters[k]]
    /\ UNCHANGED <<m_messages, m_system_message, m_config, m_model_name>>
    /\ UNCHANGED <<supports_streaming, cancelFlag, xfer, call, response, result, stream,
                   registryVars, restVars>>

\* general_context::clear_messages
clear_messages ==
    /\ m_messages' = <<>>
    /\ served' = Served("clear_messages")
    /\ UNCHANGED <<m_parameters, m_system_message, m_config, m_model_name>>
    /\ UNCHANGED <<supports_streaming, cancelFlag, xfer, call, response, result, stream,
                   registryVars, restVars>>

\* a clear_parameters that leaves the parameters as they are
clear_parameters_kept ==
    /\ served' = Served("clear_parameters")
    /\ UNCHANGED <<m_messages, m_parameters, m_system_message, m_config, m_model_name>>
    /\ UNCHANGED <<supports_streaming, cancelFlag, xfer, call, response, result, stream,
                   registryVars, restVars>>

\* general_context::clear_parameters: what the caller set is dropped, which
\* leaves the defaults the context was constructed with
clear_parameters ==
    /\ m_parameters' = DefaultParameters(m_config)
    /\ served' = Served("clear_parameters")
    /\ UNCHANGED <<m_messages, m_system_message, m_config, m_model_name>>
    /\ UNCHANGED <<supports_streaming, cancelFlag, xfer, call, response, result, stream,
                   registryVars, restVars>>

\* a reset that clears the messages only
reset_keeps_parameters ==
    /\ m_messages' = <<>>
    /\ served' = Served("reset")
    /\ UNCHANGED <<m_parameters, m_system_message, m_config, m_model_name>>
    /\ UNCHANGED <<supports_streaming, cancelFlag, xfer, call, response, result, stream,
                   registryVars, restVars>>

\* general_context::reset: the messages and the system message are dropped,
\* the parameters go back to the defaults
reset ==
    /\ m_messages' = <<>>
    /\ m_parameters' = DefaultParameters(m_config)
    /\ m_system_message' = "none"
    /\ served' = Served("reset")
    /\ UNCHANGED <<m_config, m_model_name>>
    /\ UNCHANGED <<supports_streaming, cancelFlag, xfer, call, response, result, stream,
                   registryVars, restVars>>

\* general_context::get_validation_errors (is_valid_request is "no errors"):
\* a context with no message has one
get_validation_errors ==
    /\ served' = [Served("get_validation_errors") EXCEPT
                     !.errors = IF m_messages = <<>> THEN {"no messages"} ELSE {}]
    /\ UNCHANGED <<m_messages, m_parameters, m_system_message, m_config, m_model_name>>
    /\ UNCHANGED <<supports_streaming, cancelFlag, xfer, call, response, result, stream,
                   registryVars, restVars>>

\* general_context::build_request: the request holds the messages, the
\* parameters and the system message; a context with no message gets a
\* request with an empty messages array, with validation on as well
build_request ==
    /\ served' = [Served("build_request") EXCEPT
                     !.request = [messages |-> m_messages, parameters |-> m_parameters,
                                  system |-> m_system_message]]
    /\ UNCHANGED <<m_messages, m_parameters, m_system_message, m_config, m_model_name>>
    /\ UNCHANGED <<supports_streaming, cancelFlag, xfer, call, response, result, stream,
                   registryVars, restVars>>

NextContext ==
    \/ \E t \in UserTexts : add_user_message(t)
    \/ \E t \in AssistantTexts : add_assistant_message(t)
    \/ set_system_message("system")
    \/ \E kv \in ParameterInputs : set_parameter(kv[1], kv[2])
    \/ \E m \in ModelInputs : set_model(m)
    \/ clear_messages
    \/ clear_parameters
    \/ reset
    \/ get_validation_errors
    \/ build_request

SpecContext == InitContext /\ [][NextContext]_vars

\* ------------------------------------------------- legacy chat_api actions
frontVars == <<facadeVars, registryVars, contextVars, clientVars>>

\* the facade, the registry and the general_context as constructed
InitFront ==
    /\ m_messages = <<>>
    /\ supports_streaming = FALSE
    /\ cancelFlag = FALSE
    /\ xfer = NoXfer
    /\ call = NoCall
    /\ response = NoResponse
    /\ result = NoResult
    /\ stream = NoStream
    /\ m_provider_paths = <<>>
    /\ m_schema_directory = DefaultSchemaDirectory
    /\ files = {}
    /\ lookup = NoLookup
    /\ threads = [t \in Threads |-> NoThreadCall]
    /\ m_config = DefaultConfig
    /\ m_parameters = DefaultParameters(m_config)
    /\ m_system_message = "none"
    /\ m_model_name = DefaultModel
    /\ served = NoServed

\* chat_api(provider) for each provider: create_context gives the provider's
\* context with its default limit and an empty history
InitLegacy ==
    /\ InitFront
    /\ InitClient
    /\ provider \in Providers
    /\ m_history = <<>>
    /\ m_max_context_length = DefaultMaxContextLength(provider)
    /\ m_cancel_flag = FALSE
    /\ sending = NoSending
    /\ legacy = NoLegacy
    /\ thread_contexts = [t \in Threads |-> NoThreadContexts]
    /\ created = 0
    /\ handed = {}
    /\ transfers = [i \in TransferIds |-> NoTransfer]

Legacy(op) == [NoLegacy EXCEPT !.op = op, !.before = m_history,
                               !.limit = m_max_context_length]

\* the caller is not inside send
NotSending == sending.phase # "loop"

\* model_context::add_user_message, called on context()
do_add_user_message(prompt) ==
    /\ NotSending
    /\ Len(Cleared(m_history, prompt)) < MaxHistory
    /\ m_history' = context_add_user_message(provider, m_history, m_max_context_length, prompt)
    /\ legacy' = [Legacy("add_user_message") EXCEPT !.prompt = prompt]
    /\ sending' = NoSending
    /\ UNCHANGED <<provider, m_max_context_length, m_cancel_flag>>
    /\ UNCHANGED <<frontVars, factoryVars, handleVars>>

\* model_context::add_assistant_message, called on context()
do_add_assistant_message(message) ==
    /\ NotSending
    /\ Len(m_history) < MaxHistory
    /\ m_history' = context_add_assistant_message(m_history, m_max_context_length, message)
    /\ legacy' = Legacy("add_assistant_message")
    /\ sending' = NoSending
    /\ UNCHANGED <<provider, m_max_context_length, m_cancel_flag>>
    /\ UNCHANGED <<frontVars, factoryVars, handleVars>>

\* model_context::process_response, called on context()
do_process_response(r) ==
    /\ NotSending
    /\ Len(m_history) < MaxHistory
    /\ LET p == context_process_response(provider, m_history, m_max_context_length, r)
       IN /\ m_history' = p.history
          /\ legacy' = [Legacy("process_response") EXCEPT
                           !.response = r, !.appended = p.appended, !.threw = p.threw]
    /\ sending' = NoSending
    /\ UNCHANGED <<provider, m_max_context_length, m_cancel_flag>>
    /\ UNCHANGED <<frontVars, factoryVars, handleVars>>

\* model_context::set_max_context_length, called on context()
do_set_max_context_length(length) ==
    /\ NotSending
    /\ m_max_context_length' = context_set_max_context_length(provider, length)
    /\ m_history' = trim_history(m_history, m_max_context_length')
    /\ legacy' = [Legacy("set_max_context_length") EXCEPT !.length = length]
    /\ sending' = NoSending
    /\ UNCHANGED <<provider, m_cancel_flag>>
    /\ UNCHANGED <<frontVars, factoryVars, handleVars>>

\* chat_api::get_assistant_reply
do_get_assistant_reply(r) ==
    /\ NotSending
    /\ Len(m_history) < MaxHistory
    /\ LET g == get_assistant_reply(provider, m_history, m_max_context_length, r)
       IN /\ m_history' = g.history
          /\ legacy' = [Legacy("get_assistant_reply") EXCEPT
                           !.response = r, !.reply = g.reply, !.appended = g.appended]
    /\ sending' = NoSending
    /\ UNCHANGED <<provider, m_max_context_length, m_cancel_flag>>
    /\ UNCHANGED <<frontVars, factoryVars, handleVars>>

\* chat_api::cancel, from any thread: the flag is set and stays set
cancel ==
    /\ m_cancel_flag' = TRUE
    /\ sending' = IF sending.phase = "loop" THEN [sending EXCEPT !.cancelled = TRUE]
                  ELSE sending
    /\ UNCHANGED <<provider, m_history, m_max_context_length, legacy>>
    /\ UNCHANGED <<frontVars, factoryVars, handleVars>>

\* chat_api::send up to its loop: the prompt is added to the context, the
\* payload generated and the handle added to a multi handle; wire is what the
\* server will send
send(prompt, should_cancel, wire) ==
    /\ NotSending
    /\ Len(Cleared(m_history, prompt)) < MaxHistory
    /\ m_history' = context_add_user_message(provider, m_history, m_max_context_length, prompt)
    /\ legacy' = Legacy("send")
    /\ sending' = IF generate_payload_raises(prompt.question_type)
                  THEN [NoSending EXCEPT !.phase = "done", !.outcome = "raised",
                                         !.question_type = prompt.question_type]
                  ELSE [NoSending EXCEPT !.phase = "loop", !.should_cancel = should_cancel,
                                         !.still_running = TRUE, !.wire = wire,
                                         !.question_type = prompt.question_type,
                                         !.flag_at_start = m_cancel_flag]
    /\ UNCHANGED <<provider, m_max_context_length, m_cancel_flag>>
    /\ UNCHANGED <<frontVars, factoryVars, handleVars>>

\* the condition of send's loop
LoopCondition == sending.still_running /\ ~m_cancel_flag /\ ~sending.should_cancel

\* one round of send's loop, curl_multi_perform and curl_multi_wait: bytes
\* arrive in read_buffer through write_callback, or the transfer ends, done or
\* failed (an error of curl_multi_perform leaves the loop as well)
curl_multi_perform ==
    /\ sending.phase = "loop"
    /\ LoopCondition
    /\ \/ /\ sending.wire # <<>>
          /\ sending' = [sending EXCEPT !.read_buffer = Append(@, Head(sending.wire)),
                                        !.wire = Tail(@), !.performed = TRUE]
       \/ /\ sending.wire = <<>>
          /\ sending' = [sending EXCEPT !.still_running = FALSE, !.performed = TRUE]
       \/ sending' = [sending EXCEPT !.still_running = FALSE, !.failed = TRUE,
                                     !.performed = TRUE]
    /\ UNCHANGED <<provider, m_history, m_max_context_length, m_cancel_flag, legacy>>
    /\ UNCHANGED <<frontVars, factoryVars, handleVars>>

\* a send that reports every request as cancelled
send_return_cancelled ==
    /\ sending.phase = "loop"
    /\ ~LoopCondition
    /\ sending' = [sending EXCEPT !.phase = "done", !.outcome = "raised"]
    /\ UNCHANGED <<provider, m_history, m_max_context_length, m_cancel_flag, legacy>>
    /\ UNCHANGED <<frontVars, factoryVars, handleVars>>

\* chat_api::send after its loop: it raises when the flag is set or
\* should_cancel says so, and returns read_buffer otherwise
send_return ==
    /\ sending.phase = "loop"
    /\ ~LoopCondition
    /\ sending' = IF m_cancel_flag \/ sending.should_cancel
                  THEN [sending EXCEPT !.phase = "done", !.outcome = "raised"]
                  ELSE [sending EXCEPT !.phase = "done", !.outcome = "returned",
                                       !.body = sending.read_buffer]
    /\ UNCHANGED <<provider, m_history, m_max_context_length, m_cancel_flag, legacy>>
    /\ UNCHANGED <<frontVars, factoryVars, handleVars>>

\* the prompts given to add_user_message directly
ContextPrompts == {prompt \in Prompts : prompt.question_type = "General"}

NextLegacy ==
    \/ \E prompt \in ContextPrompts : do_add_user_message(prompt)
    \/ \E t \in AssistantTexts : do_add_assistant_message(t)
    \/ \E r \in {x \in LegacyResponses : x.json} : do_process_response(r)
    \/ \E length \in Lengths : do_set_max_context_length(length)
    \/ \E r \in LegacyResponses : do_get_assistant_reply(r)

SpecLegacy == InitLegacy /\ [][NextLegacy]_vars

\* sends, and cancel() from any thread at any time
NextLegacyCancel ==
    \/ cancel
    \/ \E prompt \in Prompts, pred \in BOOLEAN, wire \in LegacyBodies :
          send(prompt, pred, wire)
    \/ curl_multi_perform
    \/ send_return

SpecLegacyCancel == InitLegacy /\ [][NextLegacyCancel]_vars

\* send with cancel() never called and a should_cancel that always says no
NextLegacySend ==
    \/ \E prompt \in Prompts, wire \in LegacyBodies : send(prompt, FALSE, wire)
    \/ curl_multi_perform
    \/ send_return

\* the loop runs on the caller's thread and the transfer ends, CURLOPT_TIMEOUT
\* at the latest
SpecLegacySend ==
    InitLegacy /\ [][NextLegacySend]_vars
        /\ WF_vars(curl_multi_perform) /\ WF_vars(send_return)

\* trim_history on any history, a leading system message included
HistoryRoles == {"system", "user", "assistant"}
HistoryInputs ==
    UNION {[1..n -> [role : HistoryRoles, content : {<<"p">>, <<"r">>}]] : n \in 0..(MaxHistory + 1)}

InitTrim ==
    /\ InitFront
    /\ InitClient
    /\ provider \in Providers
    /\ m_history \in HistoryInputs
    /\ m_max_context_length \in 1..MaxHistory
    /\ m_cancel_flag = FALSE
    /\ sending = NoSending
    /\ legacy = NoLegacy
    /\ thread_contexts = [t \in Threads |-> NoThreadContexts]
    /\ created = 0
    /\ handed = {}
    /\ transfers = [i \in TransferIds |-> NoTransfer]

do_trim_history ==
    /\ legacy.op = "none"
    /\ m_history' = trim_history(m_history, m_max_context_length)
    /\ legacy' = Legacy("trim_history")
    /\ UNCHANGED <<provider, m_max_context_length, m_cancel_flag, sending>>
    /\ UNCHANGED <<frontVars, factoryVars, handleVars>>

NextTrim == do_trim_history

SpecTrim == InitTrim /\ [][NextTrim]_vars

\* ------------------------------------------------- context factory actions
InitFactory == InitFront /\ InitRest

\* a get_thread_local_context whose storage is keyed by the provider name
\* only: every thread is given the object of the first thread
get_thread_local_context_shared(t, provider_name) ==
    LET owner == CHOOSE u \in Threads : \A v \in Threads : u <= v
        current == thread_contexts[owner].ctx[provider_name]
        object == IF current = 0 THEN created + 1 ELSE current
    IN /\ thread_contexts[t].alive
       /\ thread_contexts' = [thread_contexts EXCEPT ![owner].ctx[provider_name] = object]
       /\ created' = IF current = 0 THEN created + 1 ELSE created
       /\ handed' = handed \cup {[thread |-> t, provider_name |-> provider_name,
                                  object |-> object, again |-> current # 0]}
       /\ UNCHANGED <<frontVars, legacyVars, handleVars>>

\* context_factory::get_thread_local_context on thread t: the Context of the
\* thread's own storage under the provider name, constructed on the first
\* access
get_thread_local_context(t, provider_name) ==
    LET current == thread_contexts[t].ctx[provider_name]
        object == IF current = 0 THEN created + 1 ELSE current
    IN /\ thread_contexts[t].alive
       /\ thread_contexts' = [thread_contexts EXCEPT ![t].ctx[provider_name] = object]
       /\ created' = IF current = 0 THEN created + 1 ELSE created
       /\ handed' = handed \cup {[thread |-> t, provider_name |-> provider_name,
                                  object |-> object, again |-> current # 0]}
       /\ UNCHANGED <<frontVars, legacyVars, handleVars>>

\* thread t exits: its Contexts are destroyed
thread_exit(t) ==
    /\ thread_contexts[t].alive
    /\ thread_contexts' = [thread_contexts EXCEPT
                              ![t] = [alive |-> FALSE, ctx |-> [p \in ProviderNames |-> 0]]]
    /\ UNCHANGED <<created, handed>>
    /\ UNCHANGED <<frontVars, legacyVars, handleVars>>

NextFactory ==
    \/ \E t \in Threads, p \in ProviderNames : get_thread_local_context(t, p)
    \/ \E t \in Threads : thread_exit(t)

SpecFactory == InitFactory /\ [][NextFactory]_vars

\* ------------------------------------------- http_client's handle actions
InitHandle == InitFront /\ InitRest

\* the caller is inside a blocking send_message
CallerBlocked ==
    \E i \in TransferIds : transfers[i].kind = "post" /\ transfers[i].phase # "done"

\* the next transfer
Free(i) ==
    /\ transfers[i].kind = "none"
    /\ \A j \in TransferIds : j < i => transfers[j].kind # "none"

\* chat_api::send_message: http_client::post on the caller's thread
call_send_message(i) ==
    /\ ~CallerBlocked
    /\ Free(i)
    /\ transfers' = [transfers EXCEPT ![i] = [kind |-> "post", phase |-> "queued"]]
    /\ UNCHANGED <<frontVars, legacyVars, factoryVars>>

\* chat_api::send_message_async: send_message, and so http_client::post, on
\* the thread std::async starts; the caller goes on with the future
call_send_message_async(i) ==
    /\ ~CallerBlocked
    /\ Free(i)
    /\ transfers' = [transfers EXCEPT ![i] = [kind |-> "post_async", phase |-> "queued"]]
    /\ UNCHANGED <<frontVars, legacyVars, factoryVars>>

\* chat_api::send_message_stream: http_client::post_stream starts a detached
\* thread for its task and returns
call_send_message_stream(i) ==
    /\ ~CallerBlocked
    /\ Free(i)
    /\ transfers' = [transfers EXCEPT ![i] = [kind |-> "post_stream", phase |-> "queued"]]
    /\ UNCHANGED <<frontVars, legacyVars, factoryVars>>

\* the transfer's thread starts on its curl_easy_setopt calls on m_curl
task_setopt(i) ==
    /\ transfers[i].phase = "queued"
    /\ transfers' = [transfers EXCEPT ![i].phase = "setopt"]
    /\ UNCHANGED <<frontVars, legacyVars, factoryVars>>

\* the transfer's thread enters curl_easy_perform(m_curl)
task_perform(i) ==
    /\ transfers[i].phase = "setopt"
    /\ transfers' = [transfers EXCEPT ![i].phase = "perform"]
    /\ UNCHANGED <<frontVars, legacyVars, factoryVars>>

\* curl_easy_perform returns
task_done(i) ==
    /\ transfers[i].phase = "perform"
    /\ transfers' = [transfers EXCEPT ![i].phase = "done"]
    /\ UNCHANGED <<frontVars, legacyVars, factoryVars>>

NextHandle ==
    \/ \E i \in TransferIds : call_send_message(i)
    \/ \E i \in TransferIds : call_send_message_async(i)
    \/ \E i \in TransferIds : call_send_message_stream(i)
    \/ \E i \in TransferIds : task_setopt(i)
    \/ \E i \in TransferIds : task_perform(i)
    \/ \E i \in TransferIds : task_done(i)

SpecHandle == InitHandle /\ [][NextHandle]_vars

\* ------------------------------------------- openai_context's payloads
InitPayload == InitLegacy /\ provider = "OpenAI"

\* openai_context::generate_payload(type) on the history as it is
do_generate_payload(type) ==
    /\ NotSending
    /\ provider = "OpenAI"
    /\ ~generate_payload_raises(type)
    /\ legacy' = [Legacy("generate_payload") EXCEPT
                     !.prompt.question_type = type,
                     !.messages = openai_generate_payload(m_history, type)]
    /\ sending' = NoSending
    /\ UNCHANGED <<provider, m_history, m_max_context_length, m_cancel_flag>>
    /\ UNCHANGED <<frontVars, factoryVars, handleVars>>

NextPayload ==
    \/ \E prompt \in ContextPrompts : do_add_user_message(prompt)
    \/ \E t \in AssistantTexts : do_add_assistant_message(t)
    \/ \E type \in QuestionTypes : do_generate_payload(type)

SpecPayload == InitPayload /\ [][NextPayload]_vars

\* --------------------------------------------- the chat_api's lifetime
\* chat_api has no destructor of its own: destroying it destroys m_http_client
\* (~http_client frees m_headers, the unique_ptr cleans up the curl handle)
\* and m_context.  The caller can do so whenever it is not inside a blocking
\* call; nothing waits for the detached task of a streaming send.
destroy ==
    /\ ~destroyed
    /\ xfer.kind \in {"none", "stream"}
    /\ destroyed' = TRUE
    /\ UNCHANGED <<facadeVars, registryVars, contextVars, legacyVars, factoryVars,
                   handleVars, m_api_key, m_headers>>

\* the detached task runs on after the destruction: its reads of m_curl and
\* of m_context through the captured this pointers are undefined.  The build
\* either goes on as though the objects were alive (stream_writer,
\* StreamReturn) or the process ends here, no callback made.
task_crash ==
    /\ destroyed
    /\ xfer.kind = "stream"
    /\ xfer' = [xfer EXCEPT !.kind = "none"]
    /\ stream' = [stream EXCEPT !.running = 0]
    /\ UNCHANGED <<m_messages, supports_streaming, cancelFlag, call, response, result>>
    /\ UNCHANGED <<registryVars, contextVars, restVars>>

\* one streaming send and the destruction of the chat_api; the caller makes
\* no call on a destroyed chat_api
NextDestroy ==
    \/ ~destroyed /\ \E t \in StreamAddTexts : add_user_message(t)
    \/ ~destroyed /\ CallerContinues
    \/ ~destroyed /\ \E t \in StreamSendTexts, oc \in BOOLEAN, fs \in FrameSeqs :
                        send_message_stream(t, oc, FALSE, fs)
    \/ ~destroyed /\ \E oc \in BOOLEAN, fs \in FrameSeqs :
                        send_message_stream_ctx(oc, FALSE, fs)
    \/ \E k \in 1..Len(stream.wire), ret \in BOOLEAN : stream_writer(k, ret)
    \/ stream_writer_return
    \/ StreamReturn
    \/ destroy
    \/ task_crash

SpecDestroy == Init /\ [][NextDestroy]_vars

\* ------------------------------------------------- API key and headers
\* general_context::set_api_key: the context rebuilds its headers with the
\* key; the http_client is not told
set_api_key(key) ==
    /\ Idle
    /\ m_api_key' = key
    /\ UNCHANGED <<facadeVars, registryVars, contextVars, legacyVars, factoryVars,
                   handleVars, destroyed, m_headers>>

\* the headers http_client_factory::create_http_client leaves in the client
\* it builds for the context: none, or the context's at that time
NoHeadersSet == <<>>

\* a chat_api constructed over a context with or without a key
InitHeaders ==
    /\ m_messages = <<>>
    /\ supports_streaming \in BOOLEAN
    /\ cancelFlag = FALSE
    /\ xfer = NoXfer
    /\ call = NoCall
    /\ response = NoResponse
    /\ result = NoResult
    /\ stream = NoStream
    /\ m_provider_paths = <<>>
    /\ m_schema_directory = DefaultSchemaDirectory
    /\ files = {}
    /\ lookup = NoLookup
    /\ threads = [t \in Threads |-> NoThreadCall]
    /\ m_config = DefaultConfig
    /\ m_parameters = DefaultParameters(m_config)
    /\ m_system_message = "none"
    /\ m_model_name = DefaultModel
    /\ served = NoServed
    /\ InitBack
    /\ destroyed = FALSE
    /\ m_api_key \in {NoKey} \cup ApiKeys
    /\ m_headers \in {NoHeadersSet, get_headers(m_api_key)}

\* the frames of the streams in this specification
HeaderFrameSeqs == {<<"a">>}

NextHeaders ==
    \/ \E t \in StreamAddTexts : add_user_message(t)
    \/ \E t \in AssistantTexts : add_assistant_message(t)
    \/ CallerContinues
    \/ \E key \in ApiKeys : set_api_key(key)
    \/ \E t \in StreamSendTexts : send_message(t, FALSE)
    \/ send_message_ctx(FALSE)
    \/ \E t \in StreamSendTexts, fs \in HeaderFrameSeqs : send_message_stream(t, TRUE, FALSE, fs)
    \/ \E fs \in HeaderFrameSeqs : send_message_stream_ctx(TRUE, FALSE, fs)
    \/ \E k \in 1..Len(stream.wire), ret \in BOOLEAN : stream_writer(k, ret)
    \/ stream_writer_return
    \/ PostReturn
    \/ StreamReturn

SpecHeaders == InitHeaders /\ [][NextHeaders]_vars

\* ================================================================= claims
BlockingOps == {"send_message(message)", "send_message()"}
AsyncOps == {"send_message_async(message)", "send_message_async()"}
StreamOps == {"send_message_stream(message)", "send_message_stream()"}

\* the call has come back from the sink
Returned == xfer.kind = "none" /\ response.res # "none"

\* C1: whenever a blocking send_message returns text t, the context's message
\* list afterwards ends with an assistant message whose text is t.
C1_AssistantAppended ==
    (call.op \in BlockingOps /\ result.kind = "text")
        => /\ Len(m_messages) > 0
           /\ Last(m_messages) = AssistantMsg(result.text)

\* C2: when send_message(message) raises, the message list equals the list
\* before the call plus at most the user turn the call appended.
C2_FailedSendKeepsHistory ==
    (call.op = "send_message(message)" /\ result.kind = "error")
        => m_messages \in {call.pre, Append(call.pre, UserMsg(call.arg))}

\* C7: when the cancel predicate passed to a blocking send_message returns
\* true during the transfer, the transfer is aborted and reported as failed,
\* send_message raises, and the context is as it was handed to the sink (no
\* assistant message is appended).
C7_CancelAbortsSend ==
    (call.op \in BlockingOps /\ xfer.pred /\ xfer.sawCancel)
        => /\ xfer.aborted
           /\ m_messages = call.posted
           /\ xfer.kind = "none"
                 => /\ response.res = "CURLE_ABORTED_BY_CALLBACK"
                    /\ ~response.success
                    /\ result.kind = "error"
                    /\ result.text = <<>>

C7_Witness ==
    /\ call.op \in BlockingOps
    /\ xfer.pred
    /\ xfer.sawCancel
    /\ xfer.kind = "none"
    /\ result.kind = "error"

\* C8: when the caller's cancel flag is set while an asynchronous send is in
\* flight and the sink polls during that time, the future resolves with an
\* error, not with response text.
C8_AsyncCancellable ==
    (call.op \in AsyncOps /\ Returned /\ xfer.sawCancel)
        => result.kind = "error"

\* C9: send_message returns text only if the sink reported no transport error
\* and a status in 200..299; for every transport error and every other status
\* it raises and returns no text.
C9_TextOnlyOn2xx ==
    (call.op \in BlockingOps /\ Returned)
        => /\ result.kind \in {"text", "error"}
           /\ result.kind = "text"
                 => /\ response.res = "CURLE_OK"
                    /\ response.status_code \in 200..299
           /\ (response.res # "CURLE_OK" \/ response.status_code \notin 200..299)
                 => /\ result.kind = "error"
                    /\ result.text = <<>>

C9_Witness ==
    /\ call.op \in BlockingOps
    /\ Returned
    /\ response.res = "CURLE_OK"
    /\ response.status_code = 300
    /\ JsonParse(response.body).has_text
    /\ result.kind = "error"

\* C10: when the sink returns a non-2xx status with a response body, the
\* error raised by send_message carries the HTTP status and the provider's
\* error body or the message extracted from it through error_path.
C10_ErrorCarriesStatusAndBody ==
    (/\ call.op \in BlockingOps
     /\ Returned
     /\ response.res = "CURLE_OK"
     /\ response.status_code \notin 200..299
     /\ response.body # <<>>)
        => /\ result.kind = "error"
           /\ ToString(response.status_code) \in Range(result.what)
           /\ \/ Find(result.what, response.body) # 0
              \/ LET m == extract_error(JsonParse(response.body))
                 IN m # <<>> /\ Find(result.what, m) # 0

\* ------------------------------------------------------- streaming claims
\* concatenation of the deltas of the data frames that precede the first
\* `data: [DONE]` frame
RECURSIVE ExpectedText(_)
ExpectedText(frames) ==
    IF frames = <<>> \/ Head(frames) = "DONE" THEN <<>>
    ELSE <<Head(frames)>> \o ExpectedText(Tail(frames))

\* every frame is a data frame, but for a closing `data: [DONE]`
DoneOnlyLast(frames) ==
    \A i \in 1..Len(frames) : frames[i] = "DONE" => i = Len(frames)

\* a whole `data: [DONE]` line is among the bytes delivered so far
DoneDelivered ==
    LET d == stream.delivered
        l == Prefix \o DoneMark \o <<"n">>
    IN \E i \in 1..Len(d) :
          /\ i = 1 \/ d[i - 1] = "n"
          /\ i + Len(l) - 1 <= Len(d)
          /\ SubSeq(d, i, i + Len(l) - 1) = l

\* C3: when the sink signals the successful completion of a streaming send,
\* the accumulated on_chunk texts have been appended to the context as one
\* assistant message and on_complete is invoked once with that text.
C3_StreamAppendsAssistant ==
    (/\ call.op \in StreamOps
     /\ Returned
     /\ response.success
     /\ stream.on_complete
     /\ stream.chunks # <<>>)
        => /\ Len(stream.completions) = 1
           /\ Len(m_messages) > 0
           /\ Last(m_messages) = AssistantMsg(Concat(stream.chunks))
           /\ stream.completions[1].body = Concat(stream.chunks)

\* C4: for every SSE stream whose data frames carry deltas concatenating to
\* t and every way the sink splits the bytes into chunks, the on_chunk
\* arguments concatenate to t, followed by a single on_complete.
C4_ChunksConcatToText ==
    (/\ call.op \in StreamOps
     /\ Returned
     /\ response.success
     /\ DoneOnlyLast(stream.frames))
        => /\ Concat(stream.chunks) = ExpectedText(stream.frames)
           /\ stream.on_complete => Len(stream.completions) = 1

\* C5: once a `data: [DONE]` line has been seen in a streaming send, on_chunk
\* is never invoked again for that send.
C5_NoChunkAfterDone ==
    [][(xfer.kind = "stream" /\ DoneDelivered) => stream'.chunks = stream.chunks]_vars

\* C6: once the caller's on_chunk has returned false, no further on_chunk
\* invocation happens for that send.
C6_RefusalStopsStream ==
    [][(xfer.kind = "stream" /\ stream.refused) => stream'.chunks = stream.chunks]_vars

\* C11: when the context's supports_streaming() is false, either
\* send_message_stream overload raises, the context's messages are those from
\* before the call, no transfer is handed to the sink, and neither on_chunk
\* nor on_complete is invoked.
C11_StreamingRequired ==
    (call.op \in StreamOps /\ ~supports_streaming)
        => /\ result = Raise(<<"Streaming is not supported by this provider">>)
           /\ m_messages = call.pre
           /\ xfer = NoXfer
           /\ response = NoResponse
           /\ stream = NoStream

C11_Witness ==
    /\ call.op = "send_message_stream(message)"
    /\ ~supports_streaming
    /\ m_messages # <<>>
    /\ result.kind = "error"

\* C12: for one streaming send the bytes reach the facade's on_chunk lambda in
\* the order the server wrote them, each text it yields is appended after the
\* texts of the earlier chunks, and at no time are two callbacks of the send
\* in progress: a writer call starts only when none is running, and
\* on_complete is invoked only when none is running.
C12_Step ==
    (xfer.kind = "stream" /\ stream' # stream)
        => LET c == SubSeq(stream'.delivered, Len(stream.delivered) + 1,
                           Len(stream'.delivered))
               out == IF call.op = "send_message_stream(message)"
                      THEN OnChunkMsg(c) ELSE OnChunkCtx(c)
           IN \/ /\ stream.running = 0
                 /\ stream'.running = 1
                 /\ c # <<>>
                 /\ stream'.delivered = stream.delivered \o c
                 /\ stream.wire = c \o stream'.wire
                 /\ stream'.chunks = stream.chunks \o out
                 /\ stream'.completions = stream.completions
              \/ /\ stream.running = 1
                 /\ stream'.running = 0
                 /\ stream'.delivered = stream.delivered
                 /\ stream'.chunks = stream.chunks
                 /\ stream'.completions = stream.completions
              \/ /\ stream.running = 0
                 /\ stream'.running = 0
                 /\ xfer'.kind = "none"
                 /\ stream'.delivered = stream.delivered
                 /\ stream'.chunks = stream.chunks
                 /\ stream.completions = <<>>
                 /\ stream'.completions = <<response'>>

C12_CallbacksInOrder ==
    /\ [](stream.running \in {0, 1})
    /\ [](stream.delivered \o stream.wire = Serialize(stream.frames))
    /\ [][C12_Step]_vars

C12_Witness ==
    /\ xfer.kind = "stream"
    /\ stream.running = 1
    /\ Len(stream.chunks) = 2
    /\ stream.chunks[1] # stream.chunks[2]

\* C13: a successful send_message(text) keeps every message that was in the
\* context before it, in order, and adds its own user turn after them.
C13_SendsKeepHistory ==
    (call.op = "send_message(message)" /\ result.kind = "text")
        => /\ Len(m_messages) > Len(call.pre)
           /\ SubSeq(m_messages, 1, Len(call.pre)) = call.pre
           /\ \E i \in (Len(call.pre) + 1)..Len(m_messages) :
                 m_messages[i] = UserMsg(call.arg)

\* the text a data line carries, when it is a well-formed data line
LineJson(line) == JsonParse(Substr(line, Len(Prefix)))

WellFormedLine(line) ==
    /\ StartsWith(line, Prefix)
    /\ ~LineJson(line).discarded
    /\ LineJson(line).has_text

MalformedLine(line) == StartsWith(line, Prefix) /\ ~WellFormedLine(line)

RECURSIVE WellFormedTexts(_)
WellFormedTexts(lines) ==
    IF lines = <<>> THEN <<>>
    ELSE (IF WellFormedLine(Head(lines)) THEN <<LineJson(Head(lines)).text>> ELSE <<>>)
             \o WellFormedTexts(Tail(lines))

\* C14: when a chunk made of whole lines holds a data line that fails JSON
\* parsing or text extraction, the caller sees no error and on_chunk still
\* receives the text of every well-formed data line of the chunk, those
\* before and those after the malformed line, in order.
C14_MalformedFrameDropped ==
    [][LET c == SubSeq(stream'.delivered, Len(stream.delivered) + 1,
                       Len(stream'.delivered))
       IN (/\ xfer.kind = "stream"
           /\ stream'.running > stream.running
           /\ stream.delivered = <<>> \/ Last(stream.delivered) = "n"
           /\ Last(c) = "n"
           /\ \E i \in 1..Len(GetLines(c)) : MalformedLine(GetLines(c)[i]))
          => /\ stream'.chunks = stream.chunks \o WellFormedTexts(GetLines(c))
             /\ result' = result]_vars

\* ---------------------------------------------------------- registry claims
CreateOps == {"create_context(name)", "create_context(name, config)"}

Registered(n) == n \in DOMAIN m_provider_paths

\* `<dir>/<name>.json`
DirectoryFile(n) == m_schema_directory \o <<n, ".json">>

\* the names of the `.json` files present in the schema directory (the empty
\* string names no directory)
DirectoryStems ==
    {n \in ProviderNames : m_schema_directory # <<>> /\ DirectoryFile(n) \in files}

RegisteredExisting == {n \in ProviderNames : Registered(n) /\ m_provider_paths[n] \in files}

NoDuplicates(seq) == \A i, j \in 1..Len(seq) : seq[i] = seq[j] => i = j

C16_RegisteredPathOverrides ==
    LET n == lookup.name
        path == IF Registered(n) THEN m_provider_paths[n] ELSE DirectoryFile(n)
    IN /\ lookup.op = "is_provider_available" => lookup.value = (path \in files)
       /\ lookup.op \in CreateOps
             => /\ lookup.value.kind = "context"
                      => path \in files /\ lookup.value.what = path
                /\ path \notin files => lookup.value.kind = "schema_exception"

C16_Witness ==
    /\ lookup.op = "is_provider_available"
    /\ Registered(lookup.name)
    /\ m_provider_paths[lookup.name] \notin files
    /\ DirectoryFile(lookup.name) \in files
    /\ lookup.value = FALSE

\* C17: create_context, with or without a config, raises schema_exception
\* whenever the resolved schema file does not exist (unknown name, or name
\* registered with a missing path) and changes neither the registrations nor
\* the directory.
C17_MissingSchemaRaises ==
    [][(lookup'.op \in CreateOps /\ lookup' # lookup)
          => /\ m_provider_paths' = m_provider_paths
             /\ m_schema_directory' = m_schema_directory
             /\ LET n == lookup'.name
                    missing == IF Registered(n) THEN m_provider_paths[n] \notin files
                               ELSE DirectoryFile(n) \notin files
                IN missing => lookup'.value.kind = "schema_exception"]_vars

C17_Witness ==
    /\ lookup.op = "create_context(name, config)"
    /\ Registered(lookup.name)
    /\ m_provider_paths[lookup.name] \notin files
    /\ DirectoryFile(lookup.name) \in files
    /\ lookup.value.kind = "schema_exception"

\* C18: registry calls running on several threads never race: at no time are
\* two calls in progress that touch the same member (the map or the directory
\* string) with one of them writing it, and every lookup returns what the
\* registry held.
C18_NoRegistryRace ==
    /\ \A t1, t2 \in Threads :
          (t1 # t2 /\ threads[t1].op # "idle" /\ threads[t2].op # "idle")
              => ~DataRace(threads[t1], threads[t2])
    /\ ~lookup.crashed

\* ----------------------------------------------------------- context claims
\* C19: with validation enabled, in every state with no messages (after
\* construction, clear_messages() and reset() included) build_request raises
\* ValidationError and get_validation_errors() is non-empty.
C19_EmptyListRejected ==
    (m_config.enable_validation /\ m_messages = <<>>)
        => /\ served.op = "build_request" => served.raised = "validation_exception"
           /\ served.op = "get_validation_errors" => served.errors # {}

\* C20: after reset(), whatever was set before, the message list is empty and
\* each parameter has the config's default when the config gives one, else
\* the schema's default when the schema gives one, and is absent otherwise.
C20_ResetRestoresDefaults ==
    served.op = "reset"
        => /\ m_messages = <<>>
           /\ \A k \in ParameterKeys :
                 LET fromConfig == IF k = "temperature" THEN m_config.default_temperature
                                   ELSE m_config.default_max_tokens
                 IN IF fromConfig # "none"
                    THEN k \in DOMAIN m_parameters /\ m_parameters[k] = fromConfig
                    ELSE IF k = "max_tokens"
                    THEN k \in DOMAIN m_parameters /\ m_parameters[k] = "1024"
                    ELSE k \notin DOMAIN m_parameters

C20_Witness ==
    /\ served.op = "reset"
    /\ Len(served.before.messages) = 2
    /\ "temperature" \in DOMAIN served.before.parameters
    /\ served.before.parameters["temperature"] = "0.8"
    /\ m_config.default_temperature = "0.3"

\* the (key, value) pairs the schema's parameter table does not allow
RejectedInputs ==
    {<<"temperature", "3.0">>, <<"max_tokens", "-1">>, <<"top_k", "null">>}

\* C21: with validation enabled, set_parameter with a value outside the
\* schema's range for its key, or with a null value, raises a validation error
\* and leaves the context as it was: the parameters (the key's previous value
\* included), the messages, the model and the system message.
C21_InvalidParameterRejected ==
    (served.op = "set_parameter" /\ m_config.enable_validation
        /\ <<served.key, served.value>> \in RejectedInputs)
        => /\ served.raised = "validation_exception"
           /\ m_parameters = served.before.parameters
           /\ m_messages = served.before.messages
           /\ m_model_name = served.before.model
           /\ m_system_message = served.before.system

C21_Witness ==
    /\ served.op = "set_parameter"
    /\ m_config.enable_validation
    /\ served.key = "temperature" /\ served.value = "3.0"
    /\ "temperature" \in DOMAIN m_parameters /\ m_parameters["temperature"] = "0.8"
    /\ m_messages # <<>>
    /\ m_model_name = "m2"
    /\ m_system_message = "system"

\* C22: clear_messages() empties the message list and leaves every parameter
\* as it was; clear_parameters() leaves no parameter with a value the caller
\* set (what remains is what construction gave) and leaves the message list
\* as it was.
C22_ClearsAreSeparate ==
    /\ served.op = "clear_messages"
          => m_messages = <<>> /\ m_parameters = served.before.parameters
    /\ served.op = "clear_parameters"
          => /\ m_messages = served.before.messages
             /\ \A k \in DOMAIN m_parameters :
                   /\ k \in DOMAIN DefaultParameters(m_config)
                   /\ m_parameters[k] = DefaultParameters(m_config)[k]

C22_Witness ==
    /\ served.op = "clear_parameters"
    /\ m_messages # <<>>
    /\ "temperature" \in DOMAIN served.before.parameters
    /\ served.before.parameters["temperature"] = "0.8"
    /\ m_config.default_temperature = "0.3"

\* ------------------------------------------------------------ legacy claims
ReplyOps == {"get_assistant_reply"}

\* the response is in the format the provider's context reads: a content
\* array of text items for Claude, a first choice whose message content is a
\* string for DeepSeek, a string or an array of text items for OpenAI
WellFormedResponse(p, r) ==
    /\ r.json /\ r.error = "none"
    /\ CASE p = "ClaudeAI" -> r.shape = "content_array"
         [] p = "OpenAI" -> r.shape \in {"choices_string", "choices_array"}
         [] p = "DeepSeek" -> r.shape = "choices_string"

\* C23: get_assistant_reply returns success=false with empty content and
\* leaves the history as it was for every input that is not JSON and every
\* JSON response with an `error` member; for a well-formed response of the
\* provider it returns the assistant text as content.
C23_ReplyRejectsErrors ==
    legacy.op \in ReplyOps
        => /\ (~legacy.response.json \/ legacy.response.error # "none")
                 => /\ ~legacy.reply.success
                    /\ legacy.reply.content = <<>>
                    /\ m_history = legacy.before
                    /\ ~legacy.appended
           /\ WellFormedResponse(provider, legacy.response)
                 => legacy.reply.content = legacy.response.text

C23_Witness ==
    /\ legacy.op \in ReplyOps
    /\ legacy.response.json
    /\ legacy.response.error = "bare"
    /\ legacy.response.shape = "choices_string"
    /\ provider = "DeepSeek"
    /\ legacy.before # <<>>

\* C26: in each legacy context the history is never longer than the current
\* max context length, after any sequence of add_user_message,
\* add_assistant_message, process_response and set_max_context_length.
C26_HistoryWithinLimit == Len(m_history) <= m_max_context_length

C26_Witness ==
    /\ legacy.op = "add_assistant_message"
    /\ Len(legacy.before) = m_max_context_length
    /\ legacy.limit = m_max_context_length
    /\ Len(m_history) = m_max_context_length
    /\ Len(m_history) = 2

\* C24: with cancel() never called and a should_cancel that always returns
\* false, every send, for each provider and question type, ends, and it ends
\* by returning what was received, without raising, also when the transfer
\* failed.
C24_SendReturnsBody ==
    /\ [](sending.phase = "done"
             => sending.outcome = "returned" /\ sending.body = sending.read_buffer)
    /\ [](sending.phase = "loop" => <>(sending.phase = "done"))

C24_Witness ==
    /\ sending.phase = "done"
    /\ sending.failed
    /\ sending.outcome = "returned"
    /\ sending.body = <<"x">>
    /\ provider = "ClaudeAI"
    /\ sending.question_type = "SystemDesign"

LastN(h, n) == SubSeq(h, Len(h) - n + 1, Len(h))

\* C27: trimming drops the oldest messages first and keeps the order: a
\* history h longer than the limit n becomes its last n messages in their
\* order, behind h's leading system message when it has one.
C27_TrimKeepsNewest ==
    (legacy.op = "trim_history" /\ Len(legacy.before) > legacy.limit)
        => m_history =
              (IF legacy.before[1].role = "system" THEN <<legacy.before[1]>> ELSE <<>>)
                  \o LastN(legacy.before, legacy.limit)

C27_Witness ==
    /\ legacy.op = "trim_history"
    /\ Len(legacy.before) = legacy.limit + 2
    /\ legacy.before[1].role = "system"
    /\ legacy.before[2].content # legacy.before[3].content
    /\ Len(m_history) = legacy.limit + 1

\* C28: get_assistant_reply reports success=true exactly when the call
\* appended an assistant turn to the history, for every provider and response
\* (one whose assistant content is the empty string included).
C28_SuccessIffAppended ==
    legacy.op \in ReplyOps => (legacy.reply.success <=> legacy.appended)

\* C29: a send that started after cancel() returned, during which cancel() is
\* not called and whose should_cancel says no, performs its request and is
\* not reported as cancelled.
C29_CancelOnlyInFlight ==
    (sending.phase = "done" /\ ~sending.cancelled /\ ~sending.should_cancel)
        => sending.outcome = "returned" /\ sending.performed

\* ----------------------------------------------------------- factory claim
\* C25: every call of get_thread_local_context from one thread with one
\* provider name returns the same Context object, and no object is returned
\* to two different threads.
C25_ContextPerThread ==
    \A x, y \in handed :
        /\ (x.thread = y.thread /\ x.provider_name = y.provider_name) => x.object = y.object
        /\ x.object = y.object => x.thread = y.thread

C25_Witness ==
    \E x, y \in handed :
        /\ x.thread # y.thread
        /\ x.provider_name = y.provider_name
        /\ x.again /\ y.again

\* ------------------------------------------------------------ handle claim
Using == {i \in TransferIds : transfers[i].phase \in {"setopt", "perform"}}

\* C30: at most one transfer configures or performs on the http_client's curl
\* handle at any time, in every interleaving of send_message,
\* send_message_async and send_message_stream on one chat_api.
C30_OneTransferOnHandle == Cardinality(Using) <= 1

\* C31: every invocation of the facade's on_chunk lambda (it reads m_context)
\* and every on_complete invocation of a streaming send happens while the
\* chat_api is alive: no callback of the detached task is made after the
\* destruction of the chat_api.
C31_CallbacksBeforeDestruction ==
    [][(\/ stream'.delivered # stream.delivered
        \/ stream'.chunks # stream.chunks
        \/ stream'.completions # stream.completions) => ~destroyed]_vars

\* C32: a streaming transfer that has ended, however it ended, has invoked
\* the on_complete it was given exactly once (never, when it was given
\* none); on_complete is not invoked while the transfer runs, and once it
\* has been invoked no further bytes reach on_chunk.
C32_CompletesOnceAfterChunks ==
    /\ []((xfer.kind = "none" /\ call.op \in StreamOps /\ result.kind = "void")
            => /\ Len(stream.completions) = (IF stream.on_complete THEN 1 ELSE 0)
               /\ stream.running = 0)
    /\ [](xfer.kind = "stream" => stream.completions = <<>>)
    /\ [][(stream.completions # <<>> /\ stream'.completions # <<>>)
            => /\ stream'.completions = stream.completions
               /\ stream'.chunks = stream.chunks
               /\ stream'.delivered = stream.delivered]_vars

\* a cancelled transfer that had delivered a text, and a transfer that ended
\* in an error, have each completed once
C32_Witness ==
    /\ xfer.kind = "none"
    /\ call.op \in StreamOps
    /\ xfer.aborted
    /\ stream.chunks # <<>>
    /\ ~response.success
    /\ Len(stream.completions) = 1

\* C33: every request the chat_api posts carries the context's current
\* headers: at the step that starts a transfer, in each of the four send
\* paths, the headers of the http_client are those get_headers gives for the
\* key the context holds at that moment.
C33_PostsUseCurrentHeaders ==
    [][(xfer.kind = "none" /\ xfer'.kind # "none")
        => m_headers' = get_headers(m_api_key)]_vars

CtxOps == {"send_message()", "send_message_stream()"}

\* the list holds no message with role user
NoUserTurn(msgs) == \A i \in DOMAIN msgs : msgs[i].role # "user"

\* the call raised before a request was built or handed to the sink, and the
\* context's messages are those from before the call
RaisedBeforeSink(what) ==
    /\ result = Raise(what)
    /\ m_messages = call.pre
    /\ xfer = NoXfer
    /\ response = NoResponse
    /\ stream = NoStream

\* C34 as stated: send_message() and send_message_stream(on_chunk, ...) on a
\* context without a user message raise "No user message found in context"
\* before a request is built or the sink contacted, the context unchanged.
C34_NoUserMessageRaises ==
    (call.op \in CtxOps /\ NoUserTurn(call.pre))
        => RaisedBeforeSink(<<"No user message found in context">>)

\* C34 amended: send_message() always, and send_message_stream(on_chunk, ...)
\* on a context that supports streaming, raise "No user message found in
\* context" when the context holds no user message; on a context that does
\* not support streaming the streaming send raises "Streaming is not
\* supported by this provider" instead.  Either way the call raises before a
\* request is built or the sink contacted and leaves the context unchanged.
C34_NoUserMessageRaisesAfterStreamingCheck ==
    (call.op \in CtxOps /\ NoUserTurn(call.pre))
        => IF call.op = "send_message_stream()" /\ ~supports_streaming
           THEN RaisedBeforeSink(<<"Streaming is not supported by this provider">>)
           ELSE RaisedBeforeSink(<<"No user message found in context">>)

\* a streaming send on a context that holds an assistant message only
C34_Witness ==
    /\ call.op = "send_message_stream()"
    /\ supports_streaming
    /\ call.pre # <<>>
    /\ NoUserTurn(call.pre)
    /\ result = Raise(<<"No user message found in context">>)

\* C35: after set_max_context_length(length), for every length a size_t can
\* hold, the limit of a claudeai_context is in 1..50 and the limit of an
\* openai_context or a deepseek_context is max(1, length).
C35_LimitInRange ==
    legacy.op = "set_max_context_length"
        => IF provider = "ClaudeAI"
           THEN m_max_context_length \in 1..ClaudeLimitMax
           ELSE m_max_context_length = Max(1, legacy.length)

\* C36: in each legacy context, add_user_message with a non-empty
\* user_message and is_multi_turn false leaves exactly one message, a user
\* message with the text user_message + extended_message, whatever the
\* history was; with is_multi_turn true and a non-empty history the new
\* message is last and carries user_message only, behind the newest earlier
\* messages that the limit leaves room for.
C36_AddUserMessage ==
    (legacy.op = "add_user_message" /\ legacy.prompt.user_message # <<>>)
        => LET prompt == legacy.prompt
           IN IF ~prompt.is_multi_turn
              THEN m_history = <<UserMsg(prompt.user_message \o prompt.extended_message)>>
              ELSE legacy.before # <<>>
                      => /\ m_history # <<>>
                         /\ Last(m_history) = UserMsg(prompt.user_message)
                         /\ Len(m_history) = Min(Len(legacy.before) + 1, legacy.limit)
                         /\ SubSeq(m_history, 1, Len(m_history) - 1)
                               = LastN(legacy.before, Len(m_history) - 1)

\* C37: the list and the check agree in every state of the registry: a name
\* whose schema file is a regular file or absent is in the vector that
\* get_available_providers returns if and only if is_provider_available
\* returns true for it.
C37_ListAgreesWithCheck ==
    lookup.op = "get_available_providers"
        => \A n \in ProviderNames :
              n \in Range(lookup.value)
                 <=> is_provider_available(m_provider_paths, m_schema_directory, files, n)

\* the name is in the vectors get_available_providers can return
Listed(paths, dir, fs, n) ==
    \A providers \in get_available_providers(paths, dir, fs) : n \in Range(providers)

\* C38: a step that changes the schema directory leaves the registrations as
\* they were, and every registered name is listed after the step exactly if
\* it was listed before and available after it exactly if it was available
\* before, whatever the new directory is.  No step of the registry removes a
\* registration.
C38_DirectoryChangeKeepsRegistrations ==
    /\ [][m_schema_directory' # m_schema_directory
            => /\ m_provider_paths' = m_provider_paths
               /\ \A n \in DOMAIN m_provider_paths :
                     /\ is_provider_available(m_provider_paths', m_schema_directory', files', n)
                           = is_provider_available(m_provider_paths, m_schema_directory, files, n)
                     /\ Listed(m_provider_paths', m_schema_directory', files', n)
                           = Listed(m_provider_paths, m_schema_directory, files, n)]_vars
    /\ [][DOMAIN m_provider_paths \subseteq DOMAIN m_provider_paths']_vars

\* the directory has been set to one that does not exist while a registered
\* provider is listed and available
C38_Witness ==
    /\ lookup.op = "set_schema_directory"
    /\ m_schema_directory # <<>>
    /\ ~Exists(files, m_schema_directory)
    /\ \E n \in DOMAIN m_provider_paths :
          /\ is_provider_available(m_provider_paths, m_schema_directory, files, n)
          /\ Listed(m_provider_paths, m_schema_directory, files, n)

\* the system prompt of a question type; Coding has none
SysPrompt(type) ==
    CASE type = "General" -> GENERAL_SYSPROMPT
      [] type = "Behavioral" -> BEHAVIORAL_SYSPROMPT
      [] type = "SystemDesign" -> SYSTEM_DESIGN_SYSPROMPT

\* C39: for General, Behavioral and SystemDesign the messages of the payload
\* openai_context::generate_payload builds are a system message carrying the
\* type's system prompt followed by the messages of the history that are not
\* system messages.
C39_SystemPromptFirst ==
    (legacy.op = "generate_payload" /\ legacy.prompt.question_type # "Coding")
        => legacy.messages =
              <<SystemMsg(SysPrompt(legacy.prompt.question_type))>>
                  \o SelectSeq(m_history, NotSystem)

====
